---- MODULE Spec2Model ----
(***************************************************************************)
(* Gesture-authenticated BLE UART server: the session state machine of     *)
(* server/auth_manager.py driven by the handlers of server/auth_server.py, *)
(* the template store of server/user_database.py, and the matcher of       *)
(* authenticator/authenticate_gesture.py behind gesture_recognizer.py.     *)
(*                                                                         *)
(* Strings are sequences of one-character strings, so that strip(),        *)
(* lower() and len() are computed.  A Python dict is a function whose      *)
(* DOMAIN is its key set.  Python None is NoneName (for a username),       *)
(* NoneList (for a gesture list) or NoneTime (for a timestamp).            *)
(* Distances are in thousandths, confidences are pairs <<num, den>>.       *)
(***************************************************************************)
EXTENDS Integers, Sequences, FiniteSets, TLC

VARIABLES
    real_mode,         \* GestureRecognizer.real_mode (REAL_GESTURE_AVAILABLE)
    sessions,          \* AuthenticationManager.sessions: device_id -> AuthSession
    users,             \* UserDatabase.users: lowercase name -> record
    subscriber_count,  \* TxCharacteristic.subscriber_count
    notifying,         \* TxCharacteristic.notifying
    subscribers,       \* the clients that enabled notifications on the TX characteristic
    timers,            \* pending GLib.timeout_add(100, _do_gesture_recording, device_id)
    tx,                \* lines sent by send_tx during the last handler
    last,              \* the last handler run: its name, device and returned value
    m_in,              \* direct matcher call: reference list and DTW distances
    m_out,             \* direct matcher call: the returned (is_authenticated, results)
    message_buffer,    \* RxCharacteristic.message_buffer
    relay,             \* multi_client_server.py: connected_clients and its characteristics
    f_in,              \* direct call of a numeric function: its arguments
    f_out              \* direct call of a numeric function: the returned value

extVars == <<message_buffer, relay, f_in, f_out>>

vars == <<real_mode, sessions, users, subscriber_count, notifying, subscribers,
          timers, tx, last, m_in, m_out, extVars>>

serverVars == <<real_mode, sessions, users, subscriber_count, notifying, subscribers,
                timers, tx, last>>
matcherVars == <<m_in, m_out>>

----------------------------------------------------------------------------
(* Bounds of the model *)

MaxTrials == 4      \* cap on AuthSession.current_attempt, which the code never caps
MaxTimers == 1      \* cap on the number of pending recording timeouts
MaxSubs == 2        \* cap on subscriber_count
MaxRefs == 3        \* largest reference list handed to the matcher directly
MaxMgrTrials == 2   \* cap on current_attempt when the manager is called directly
MaxRaw == 200       \* largest number of raw samples one recording collects
FloatBits == 3      \* significand bits of the model's binary floating point
MaxSeries == 3      \* longest series handed to normalize_series directly
MaxTwed == 2        \* most rows of a series handed to twed_distance directly
MaxBuffer == 4      \* cap on the length of the incomplete line kept in message_buffer
MaxDtw == 2         \* most rows of a trace handed to dtw_distance directly
MaxWrite == 27      \* most bytes of one write of a byte stream

(* Program constants *)

max_attempts == 3
num_samples == 3
GestureRows == 160
SIMILARITY_THRESHOLD_DTW == 40
SIMILARITY_THRESHOLD_HMM == -125
NoneTime == 0

NoneName == << >>
NoneList == << >>

(* Input alphabets *)

Names == { <<"A", "l">>, <<"a", "l">>, <<" ", "a">> }
TraceIds == {1, 2}
DummyIds == {1}
Times == {1}
RowChoices == {GestureRows, 80}
DistValues == {0, 40, 41, 1000000}
TrialDists == {40, 41}
DummyHigh == { <<3, 4>> }
DummyLow == { <<1, 2>> }
Texts == { <<"h", "i">> }

----------------------------------------------------------------------------
(* str.lower(), str.strip(), dict helpers *)

\* str.lower() on the letters A..Z.
LowerOf ==
    LET upper ==
          <<"A", "B", "C", "D", "E", "F", "G", "H", "I", "J", "K", "L", "M", "N",
          "O", "P", "Q", "R", "S", "T", "U", "V", "W", "X", "Y", "Z">>
        lower ==
          <<"a", "b", "c", "d", "e", "f", "g", "h", "i", "j", "k", "l", "m", "n",
          "o", "p", "q", "r", "s", "t", "u", "v", "w", "x", "y", "z">>
    IN [c \in {upper[i] : i \in 1..26} |-> lower[CHOOSE i \in 1..26 : upper[i] = c]]

LowerChar(c) == IF c \in DOMAIN LowerOf THEN LowerOf[c] ELSE c

Lower(s) == [i \in 1..Len(s) |-> LowerChar(s[i])]

RECURSIVE LStrip(_)
LStrip(s) == IF s # << >> /\ Head(s) = " " THEN LStrip(Tail(s)) ELSE s

RECURSIVE RStrip(_)
RStrip(s) ==
    IF s # << >> /\ s[Len(s)] = " " THEN RStrip(SubSeq(s, 1, Len(s) - 1)) ELSE s

Strip(s) == RStrip(LStrip(s))

Put(f, k, v) == [x \in DOMAIN f \cup {k} |-> IF x = k THEN v ELSE f[x]]
Del(f, k) == [x \in DOMAIN f \ {k} |-> f[x]]
EmptyDict == [x \in {} |-> x]

\* f_in / f_out before a numeric function is called directly.
NoCall == [fn |-> "none"]

----------------------------------------------------------------------------
(* server/user_database.py: UserDatabase *)

\* The lookup compares the name as typed.
user_exists_exact(U, username) == \E k \in DOMAIN U : U[k].username = username

user_exists(U, username) == Lower(username) \in DOMAIN U

\* An existing record is overwritten.
register_user_overwrite(U, username, gesture_list, now) ==
    [users |-> Put(U, Lower(username),
                   [username |-> username,
                    gesture_list |-> gesture_list,
                    num_gestures |-> Len(gesture_list),
                    created_at |-> now,
                    last_login |-> NoneTime]),
     ret |-> TRUE]

\* Returns the new dict and the bool the method returns.
register_user(U, username, gesture_list, now) ==
    LET username_lower == Lower(username) IN
    IF user_exists(U, username)
    THEN [users |-> U, ret |-> FALSE]
    ELSE [users |-> Put(U, username_lower,
                        [username |-> username,
                         gesture_list |-> gesture_list,
                         num_gestures |-> Len(gesture_list),
                         created_at |-> now,
                         last_login |-> NoneTime]),
          ret |-> TRUE]

\* The record is looked up under the name as typed.
get_gesture_list_exact(U, username) ==
    IF username \in DOMAIN U /\ U[username].gesture_list # << >>
    THEN U[username].gesture_list
    ELSE NoneList

\* None when the user is absent or the stored list is empty (falsy).
get_gesture_list(U, username) ==
    LET username_lower == Lower(username) IN
    IF username_lower \in DOMAIN U /\ U[username_lower].gesture_list # << >>
    THEN U[username_lower].gesture_list
    ELSE NoneList

\* The login also restamps created_at.
update_last_login_restamp(U, username, now) ==
    LET username_lower == Lower(username) IN
    IF username_lower \in DOMAIN U
    THEN [U EXCEPT ![username_lower].last_login = now, ![username_lower].created_at = now]
    ELSE U

update_last_login(U, username, now) ==
    LET username_lower == Lower(username) IN
    IF username_lower \in DOMAIN U
    THEN [U EXCEPT ![username_lower].last_login = now]
    ELSE U

get_all_users(U) == {U[k].username : k \in DOMAIN U}

----------------------------------------------------------------------------
(* authenticator: capture, normalisation, matcher *)

\* A gesture array: which movement it is, its row count, whether it went
\* through normalize_series.
Trace(id, rows, normalized) == [id |-> id, rows |-> rows, normalized |-> normalized]

\* What one call of SensorCollector.collect_gesture does: raises, or returns
\* the resampled array (GestureRows rows, fewer when raw samples were scarce).
GoodCaptures ==
    { [raises |-> FALSE, trace |-> Trace(i, GestureRows, FALSE)] : i \in TraceIds }
BadCaptures ==
    { [raises |-> FALSE, trace |-> Trace(i, r, FALSE)] :
          i \in TraceIds, r \in RowChoices \ {GestureRows} }
    \cup { [raises |-> TRUE, trace |-> Trace(1, 0, FALSE)] }

\* The captures one registration performs: num_samples good ones, or fewer
\* good ones and then the one that fails (the loop returns there).
GoodCapture(id) == [raises |-> FALSE, trace |-> Trace(id, GestureRows, FALSE)]
GoodRuns ==
    { [i \in 1..num_samples |-> GoodCapture(IF i % 2 = 1 THEN a ELSE b)] :
          a \in TraceIds, b \in TraceIds \ {1} }
FailedRuns ==
    UNION { { Append(SubSeq(run, 1, k), bad) : run \in GoodRuns, bad \in BadCaptures } :
            k \in 0..(num_samples - 1) }

normalize_series(series) ==
    IF series.rows = 0 THEN series ELSE [series EXCEPT !.normalized = TRUE]

generate_single_gesture(capture) == normalize_series(capture.trace)

\* A failed sample ends the loop but keeps the samples recorded so far.
register_loop_partial(captures, i, gesture_list) ==
    [gesture_list |-> SelectSeq(SubSeq([k \in 1..Len(captures) |->
                                           generate_single_gesture(captures[k])],
                                      i, Len(captures)),
                               LAMBDA g : g.rows = GestureRows),
     success |-> TRUE]

\* The sample loop of GestureRecognizer.register_gesture in real mode.
RECURSIVE register_loop(_, _, _)
register_loop(captures, i, gesture_list) ==
    IF i > num_samples THEN [gesture_list |-> gesture_list, success |-> TRUE]
    ELSE IF captures[i].raises THEN [gesture_list |-> NoneList, success |-> FALSE]
    ELSE LET gesture_array == generate_single_gesture(captures[i]) IN
         IF gesture_array.rows # GestureRows
         THEN [gesture_list |-> NoneList, success |-> FALSE]
         ELSE register_loop(captures, i + 1, Append(gesture_list, gesture_array))

\* env.captures: the capture outcomes; env.dummy_ids: the random arrays of dummy mode.
register_gesture(real, env) ==
    IF real
    THEN register_loop(env.captures, 1, << >>)
    ELSE [gesture_list |-> [i \in 1..num_samples |-> Trace(env.dummy_ids[i], GestureRows, FALSE)],
          success |-> TRUE]

RECURSIVE CountTrue(_)
CountTrue(flags) ==
    IF flags = << >> THEN 0
    ELSE (IF Head(flags) THEN 1 ELSE 0) + CountTrue(Tail(flags))

\* A tie counts as a majority.
MajorityVote_tie(passed_count, total_count) == 2 * passed_count >= total_count

\* majority_threshold = total_count / 2.0; passed_count > majority_threshold
\* (both sides doubled, to stay in the integers)
MajorityVote(passed_count, total_count) == 2 * passed_count > total_count

\* authenticate_against_gestures(gesture_list): distances[i] is what
\* dtw_distance gives for reference i and the freshly captured gesture.
authenticate_against_gestures(gesture_list, distances) ==
    IF gesture_list = << >>
    THEN [is_authenticated |-> FALSE, results |-> EmptyDict]
    ELSE LET dtw_results == [i \in 1..Len(gesture_list) |->
                                [gesture_idx |-> i,
                                 distance |-> distances[i],
                                 passed |-> distances[i] <= SIMILARITY_THRESHOLD_DTW]]
             passed_count == CountTrue([i \in 1..Len(dtw_results) |-> dtw_results[i].passed])
             total_count == Len(dtw_results)
             is_authenticated == MajorityVote(passed_count, total_count)
         IN [is_authenticated |-> is_authenticated,
             results |-> [passed_count |-> passed_count,
                          total_count |-> total_count,
                          threshold |-> SIMILARITY_THRESHOLD_DTW,
                          authenticated |-> is_authenticated]]

\* Parameters of authenticate_against_gestures, and the keywords that
\* GestureRecognizer.verify_gesture passes besides the positional list.
MatcherParameters == {"gesture_list"}
VerifyCallKeywords == {"countdown"}

\* Python raises TypeError when a call names a keyword the function lacks.
CallRaisesTypeError(keywords, parameters) == ~(keywords \subseteq parameters)

DictGet(d, key, default) == IF key \in DOMAIN d THEN d[key] ELSE default

\* GestureRecognizer.verify_gesture -> (match, confidence)
verify_gesture(real, stored_gestures, env) ==
    IF real
    THEN IF CallRaisesTypeError(VerifyCallKeywords, MatcherParameters)
         THEN [match |-> FALSE, confidence |-> <<0, 1>>]
         ELSE LET r == authenticate_against_gestures(stored_gestures, env.distances)
                  passed_count == DictGet(r.results, "passed_count", 0)
                  total_count == DictGet(r.results, "total_count", 1)
              IN [match |-> r.is_authenticated,
                  confidence |-> IF total_count > 0 THEN <<passed_count, total_count>>
                                 ELSE <<0, 1>>]
    ELSE [match |-> env.dummy_success, confidence |-> env.dummy_confidence]

----------------------------------------------------------------------------
(* server/auth_manager.py: AuthSession, AuthenticationManager *)

AuthState == {"unauthenticated", "waiting_username", "countdown", "recording",
              "verifying", "authenticated"}

\* AuthSession.__init__
AuthSession ==
    [state |-> "unauthenticated",
     username |-> NoneName,
     is_new_user |-> FALSE,
     attempts |-> << >>,
     current_attempt |-> 0]

create_session(S, device_id) ==
    Put(S, device_id, [AuthSession EXCEPT !.state = "waiting_username"])

\* Removing one session empties the table.
remove_session_all(S, device_id) == EmptyDict

remove_session(S, device_id) ==
    IF device_id \in DOMAIN S THEN Del(S, device_id) ELSE S

\* An existing session is kept and only renamed.
handle_username_merge(S, U, device_id, raw_username) ==
    LET S2 == IF device_id \in DOMAIN S THEN S ELSE create_session(S, device_id)
        username == Strip(raw_username)
    IN IF username = << >> \/ Len(username) < 2
       THEN [sessions |-> S2, ret |-> [status |-> "error"]]
       ELSE LET is_new_user == ~user_exists(U, username)
            IN [sessions |-> [S2 EXCEPT ![device_id].username = username,
                                        ![device_id].is_new_user = is_new_user],
                ret |-> [status |-> IF is_new_user THEN "new_user" ELSE "existing_user",
                         username |-> username]]

\* The fresh session of a valid username takes over the state of the session
\* it replaces.
handle_username_resume(S, U, device_id, raw_username) ==
    LET S1 == IF device_id \in DOMAIN S THEN remove_session(S, device_id) ELSE S
        S2 == create_session(S1, device_id)
        username == Strip(raw_username)
    IN IF username = << >> \/ Len(username) < 2
       THEN [sessions |-> S2, ret |-> [status |-> "error"]]
       ELSE LET is_new_user == ~user_exists(U, username)
                S3 == [S2 EXCEPT ![device_id].username = username,
                                 ![device_id].is_new_user = is_new_user,
                                 ![device_id].current_attempt = 0,
                                 ![device_id].attempts = << >>,
                                 ![device_id].state =
                                     IF device_id \in DOMAIN S THEN S[device_id].state ELSE @]
            IN [sessions |-> S3,
                ret |-> [status |-> IF is_new_user THEN "new_user" ELSE "existing_user",
                         username |-> username]]

\* Returns the new session table and the returned dict.
handle_username(S, U, device_id, raw_username) ==
    LET S1 == IF device_id \in DOMAIN S THEN remove_session(S, device_id) ELSE S
        S2 == create_session(S1, device_id)
        username == Strip(raw_username)
    IN IF username = << >> \/ Len(username) < 2
       THEN [sessions |-> S2, ret |-> [status |-> "error"]]
       ELSE LET is_new_user == ~user_exists(U, username)
                S3 == [S2 EXCEPT ![device_id].username = username,
                                 ![device_id].is_new_user = is_new_user,
                                 ![device_id].current_attempt = 0,
                                 ![device_id].attempts = << >>]
            IN [sessions |-> S3,
                ret |-> [status |-> IF is_new_user THEN "new_user" ELSE "existing_user",
                         username |-> username]]

start_gesture_recording(S, device_id) ==
    IF device_id \notin DOMAIN S \/ S[device_id].username = NoneName
    THEN [sessions |-> S, ret |-> FALSE]
    ELSE [sessions |-> [S EXCEPT ![device_id].current_attempt = @ + 1,
                                 ![device_id].state = "recording"],
          ret |-> TRUE]

\* auth_complete = session.current_attempt >= session.max_attempts
\* The decision is taken one trial late.
AuthComplete_late(current_attempt) == current_attempt >= max_attempts + 1

\* The session is decided one trial early.
AuthComplete_early(current_attempt) == current_attempt >= max_attempts - 1

\* auth_complete = session.current_attempt >= session.max_attempts
AuthComplete(current_attempt) == current_attempt >= max_attempts

\* One accepted trial is enough.
AuthSuccess_one(total_passed) == total_passed >= 1

\* auth_success = total_passed >= 2
AuthSuccess(total_passed) == total_passed >= 2

\* The guard is missing.
NoStoredGestures_unchecked(stored_gestures) == FALSE

\* if not stored_gestures
NoStoredGestures(stored_gestures) == stored_gestures = NoneList

total_passed_of(attempts) ==
    CountTrue([i \in 1..Len(attempts) |-> attempts[i].success])

\* The registration branch of process_gesture_attempt.  ghost.registered is
\* the value register_user returned (the code drops it).
process_registration(S, U, real, device_id, env) ==
    LET session == S[device_id]
        rg == register_gesture(real, env)
    IN IF rg.success /\ rg.gesture_list # << >>
       THEN LET ru == register_user(U, session.username, rg.gesture_list, env.now1)
            IN [sessions |-> [S EXCEPT ![device_id].state = "authenticated"],
                users |-> update_last_login(ru.users, session.username, env.now2),
                ret |-> [attempt_number |-> 1, success |-> TRUE, confidence |-> <<1, 1>>,
                         total_passed |-> 1, total_attempts |-> 1,
                         auth_complete |-> TRUE, auth_success |-> TRUE],
                ghost |-> [kind |-> "registration", captured |-> rg.gesture_list,
                           registered |-> ru.ret]]
       ELSE [sessions |-> S,
             users |-> U,
             ret |-> [attempt_number |-> 1, success |-> FALSE, confidence |-> <<0, 1>>,
                      total_passed |-> 0, total_attempts |-> 1,
                      auth_complete |-> TRUE, auth_success |-> FALSE],
             ghost |-> [kind |-> "registration_failed", captured |-> NoneList,
                        registered |-> FALSE]]

\* The verification branch of process_gesture_attempt.  ghost.vote is what the
\* matcher computes for the gesture performed in this trial.
process_verification(S, U, real, device_id, env) ==
    LET session == S[device_id]
        stored_gestures == get_gesture_list(U, session.username)
    IN IF NoStoredGestures(stored_gestures)
       THEN [sessions |-> S, users |-> U,
             ret |-> [error |-> "No gestures found for user"],
             ghost |-> [kind |-> "no_gestures", captured |-> NoneList, registered |-> FALSE]]
       ELSE LET v == verify_gesture(real, stored_gestures, env)
                attempts == Append(session.attempts,
                                   [success |-> v.match, confidence |-> v.confidence])
                total_passed == total_passed_of(attempts)
                auth_complete == AuthComplete(session.current_attempt)
                auth_success == AuthSuccess(total_passed)
                state == IF auth_complete
                         THEN (IF auth_success THEN "authenticated" ELSE "unauthenticated")
                         ELSE session.state
                S1 == [S EXCEPT ![device_id].attempts = attempts,
                                ![device_id].state = state]
                U1 == IF auth_complete /\ auth_success
                      THEN update_last_login(U, session.username, env.now2)
                      ELSE U
            IN [sessions |-> S1, users |-> U1,
                ret |-> [attempt_number |-> session.current_attempt,
                         success |-> v.match,
                         confidence |-> v.confidence,
                         total_passed |-> total_passed,
                         total_attempts |-> session.current_attempt,
                         auth_complete |-> auth_complete,
                         auth_success |-> IF auth_complete THEN auth_success ELSE FALSE],
                ghost |-> [kind |-> "verification", captured |-> NoneList,
                           registered |-> FALSE]]

process_gesture_attempt(S, U, real, device_id, env) ==
    IF device_id \notin DOMAIN S
    THEN [sessions |-> S, users |-> U, ret |-> [error |-> "No session found"],
          ghost |-> [kind |-> "no_session", captured |-> NoneList, registered |-> FALSE]]
    ELSE LET S1 == [S EXCEPT ![device_id].state = "verifying"]
         IN IF S1[device_id].is_new_user
            THEN process_registration(S1, U, real, device_id, env)
            ELSE process_verification(S1, U, real, device_id, env)

\* Any session counts as authenticated.
is_authenticated_any(S, device_id) == device_id \in DOMAIN S

is_authenticated(S, device_id) ==
    device_id \in DOMAIN S /\ S[device_id].state = "authenticated"

get_username(S, device_id) ==
    IF device_id \in DOMAIN S /\ S[device_id].state = "authenticated"
    THEN S[device_id].username
    ELSE NoneName

\* The username survives the reset.
reset_session_named(S, device_id) ==
    IF device_id \in DOMAIN S
    THEN [S EXCEPT ![device_id].state = "waiting_username",
                   ![device_id].attempts = << >>,
                   ![device_id].current_attempt = 0]
    ELSE S

reset_session(S, device_id) ==
    IF device_id \in DOMAIN S
    THEN [S EXCEPT ![device_id].state = "waiting_username",
                   ![device_id].username = NoneName,
                   ![device_id].attempts = << >>,
                   ![device_id].current_attempt = 0]
    ELSE S

----------------------------------------------------------------------------
(* server/auth_server.py: TxCharacteristic, RxCharacteristic *)

\* One outbound line.  Unused fields hold NoneName / 0.
Line(tag, name, text, n, passed, total) ==
    [tag |-> tag, name |-> name, text |-> text, n |-> n, passed |-> passed, total |-> total]

Plain(tag, text) == Line(tag, NoneName, text, 0, 0, 0)

\* TxCharacteristic.send_tx: the lines sent so far in this handler, plus message
\* when some client is subscribed.
send_tx(notif, sent, message) == IF ~notif THEN sent ELSE Append(sent, message)

NoGhost == [kind |-> "none", captured |-> NoneList, registered |-> FALSE]
NoVote == [is_authenticated |-> FALSE, results |-> EmptyDict]

\* The record of a handler run.  failed_at is the index of the first
\* registration capture that raised or had the wrong shape (0: none did).
\* had_attempts: the handler discarded a session that held attempt records.
\* was_authenticated: the handler discarded an AUTHENTICATED session.
Ran(op, dev, ret, ghost, vote) ==
    [op |-> op, dev |-> dev, ret |-> ret, ghost |-> ghost, vote |-> vote, failed_at |-> 0,
     had_attempts |-> FALSE, was_authenticated |-> FALSE]

BadCapture(c) == c.raises \/ c.trace.rows # GestureRows

FirstBad(captures) ==
    LET bad == {i \in 1..Len(captures) : BadCapture(captures[i])} IN
    IF bad = {} THEN 0 ELSE CHOOSE i \in bad : \A j \in bad : i <= j

\* What the environment decides during one recording: capture outcomes, the
\* random draws of dummy mode, DTW distances, clock readings.
DefaultEnv ==
    [captures |-> << >>,
     dummy_ids |-> [i \in 1..num_samples |-> 1],
     distances |-> << >>,
     dummy_success |-> FALSE,
     dummy_confidence |-> <<0, 1>>,
     now1 |-> 1,
     now2 |-> 1]

\* datetime.now() never runs backwards: the readings of one recording are
\* ordered, and not before the timestamps the user's record already holds.
Clock(U, username) ==
    LET k == Lower(username) IN
    IF k \in DOMAIN U
    THEN { t \in Times : t >= U[k].created_at /\ t >= U[k].last_login }
    ELSE Times

ClockPairs(U, username) ==
    { p \in Clock(U, username) \X Clock(U, username) : p[1] <= p[2] }

Envs(real, session, U) ==
    IF session.is_new_user
    THEN IF real
         THEN { [DefaultEnv EXCEPT !.captures = c, !.now1 = p[1], !.now2 = p[2]] :
                    c \in GoodRuns, p \in ClockPairs(U, session.username) }
              \cup { [DefaultEnv EXCEPT !.captures = c] : c \in FailedRuns }
         ELSE { [DefaultEnv EXCEPT !.dummy_ids = g, !.now1 = p[1], !.now2 = p[2]] :
                    g \in [1..num_samples -> DummyIds],
                    p \in ClockPairs(U, session.username) }
    ELSE LET n == Len(get_gesture_list(U, session.username)) IN
         IF real
         THEN { [DefaultEnv EXCEPT !.distances = ds, !.now2 = t2] :
                    ds \in [1..n -> TrialDists], t2 \in Clock(U, session.username) }
         ELSE { [DefaultEnv EXCEPT !.dummy_success = TRUE, !.dummy_confidence = c,
                                   !.distances = [i \in 1..n |-> 0], !.now2 = t2] :
                    c \in DummyHigh, t2 \in Clock(U, session.username) }
              \cup
              { [DefaultEnv EXCEPT !.dummy_success = FALSE, !.dummy_confidence = c,
                                   !.distances = [i \in 1..n |-> 0], !.now2 = t2] :
                    c \in DummyLow, t2 \in Clock(U, session.username) }

\* The server cannot tell BLE clients apart and uses the lowercased username
\* as device_id (auth_server.py:144-145): a client is named by the device_id
\* its lines carry.
Clients == { Lower(Strip(name)) : name \in Names }

\* TxCharacteristic.StartNotify, called when client c subscribes
StartNotify(c) ==
    /\ c \notin subscribers
    /\ subscriber_count < MaxSubs
    /\ subscribers' = subscribers \cup {c}
    /\ subscriber_count' = subscriber_count + 1
    /\ notifying' = TRUE
    /\ tx' = send_tx(TRUE, << >>, Plain("AUTH_REQUIRED", ""))
    /\ last' = Ran("StartNotify", c, [value |-> TRUE], NoGhost, NoVote)
    /\ UNCHANGED <<real_mode, sessions, users, timers, m_in, m_out, extVars>>

\* TxCharacteristic.StopNotify, called when client c unsubscribes
StopNotify(c) ==
    /\ c \in subscribers
    /\ subscribers' = subscribers \ {c}
    /\ LET count == IF subscriber_count > 0 THEN subscriber_count - 1 ELSE subscriber_count
       IN /\ subscriber_count' = count
          /\ notifying' = IF count = 0 THEN FALSE ELSE notifying
          /\ sessions' = IF count = 0 THEN EmptyDict ELSE sessions
    /\ tx' = << >>
    /\ last' = Ran("StopNotify", c, [value |-> TRUE], NoGhost, NoVote)
    /\ UNCHANGED <<real_mode, users, timers, m_in, m_out, extVars>>

\* RxCharacteristic._handle_username on the line USERNAME:<name>
HandleUsername(name) ==
    LET username == Strip(name)
        device_id == Lower(username)
        S1 == IF device_id \notin DOMAIN sessions
              THEN create_session(sessions, device_id) ELSE sessions
        r == handle_username(S1, users, device_id, username)
        tag == CASE r.ret.status = "new_user" -> "NEW_USER"
                 [] r.ret.status = "existing_user" -> "EXISTING_USER"
                 [] OTHER -> "ERROR"
        text == IF r.ret.status = "error"
                THEN "Username must be at least 2 characters" ELSE "Welcome"
    IN /\ sessions' = r.sessions
       /\ tx' = send_tx(notifying, << >>, Plain(tag, text))
       /\ last' = [Ran("_handle_username", device_id, r.ret, NoGhost, NoVote)
                   EXCEPT !.had_attempts = IF device_id \in DOMAIN sessions
                                           THEN sessions[device_id].attempts # << >>
                                           ELSE FALSE,
                          !.was_authenticated = is_authenticated(sessions, device_id)]
       /\ UNCHANGED <<real_mode, users, subscriber_count, notifying, subscribers, timers,
                      m_in, m_out, extVars>>

\* The test of session.username is missing.
HandleGestureReady_unchecked(name) ==
    LET username == Strip(name)
        device_id == Lower(username)
        refused == device_id \notin DOMAIN sessions
    IN /\ IF refused THEN TRUE ELSE Len(timers) < MaxTimers
       /\ timers' = IF refused THEN timers ELSE Append(timers, device_id)
       /\ tx' = IF refused
                THEN send_tx(notifying, << >>, Plain("ERROR", "Please send username first"))
                ELSE << >>
       /\ last' = Ran("_handle_gesture_ready", device_id, [value |-> ~refused],
                      NoGhost, NoVote)
       /\ UNCHANGED <<real_mode, sessions, users, subscriber_count, notifying, subscribers,
                      m_in, m_out, extVars>>

\* RxCharacteristic._handle_gesture_ready on the line READY_FOR_GESTURE:<name>
HandleGestureReady(name) ==
    LET username == Strip(name)
        device_id == Lower(username)
        refused == IF device_id \notin DOMAIN sessions THEN TRUE
                   ELSE sessions[device_id].username = NoneName
    IN /\ IF refused THEN TRUE ELSE Len(timers) < MaxTimers
       /\ timers' = IF refused THEN timers ELSE Append(timers, device_id)
       /\ tx' = IF refused
                THEN send_tx(notifying, << >>, Plain("ERROR", "Please send username first"))
                ELSE << >>
       /\ last' = Ran("_handle_gesture_ready", device_id, [value |-> ~refused],
                      NoGhost, NoVote)
       /\ UNCHANGED <<real_mode, sessions, users, subscriber_count, notifying, subscribers,
                      m_in, m_out, extVars>>

\* RxCharacteristic._handle_chat_message on the line MSG:<name>:<text>, written
\* by the client of that name
HandleChatMessage(name, text) ==
    LET username == Strip(name)
        msg_text == Strip(text)
        device_id == Lower(username)
        authenticated == is_authenticated(sessions, device_id)
    IN /\ tx' = IF ~authenticated
                THEN send_tx(notifying, << >>, Plain("ERROR", "Not authenticated"))
                ELSE send_tx(notifying, << >>, Line("MSG", username, msg_text, 0, 0, 0))
       /\ last' = Ran("_handle_chat_message", device_id, [value |-> authenticated],
                      NoGhost, NoVote)
       /\ UNCHANGED <<real_mode, sessions, users, subscriber_count, notifying, subscribers,
                      timers, m_in, m_out, extVars>>

\* The attempt result always reports the total as max_attempts.
ResultLines_of_three(notif, sent, session, result) ==
    IF "error" \in DOMAIN result
    THEN send_tx(notif, sent, Plain("ERROR", result.error))
    ELSE IF session.is_new_user
    THEN IF result.auth_success
         THEN send_tx(notif, sent, Line("AUTH_SUCCESS", session.username, "", 0, 0, 0))
         ELSE send_tx(notif, sent, Plain("AUTH_FAILED", "Registration failed"))
    ELSE LET t1 == send_tx(notif, sent,
                           Line("ATTEMPT_RESULT", NoneName,
                                IF result.success THEN "success" ELSE "failed",
                                result.attempt_number, result.total_passed,
                                max_attempts))
         IN IF result.auth_complete
            THEN IF result.auth_success
                 THEN send_tx(notif, t1, Line("AUTH_SUCCESS", session.username, "", 0, 0, 0))
                 ELSE send_tx(notif, t1, Line("AUTH_FAILED", NoneName, "Only n/3 attempts passed",
                                              0, result.total_passed, 3))
            ELSE t1

\* The lines _do_gesture_recording sends after process_gesture_attempt returned.
ResultLines(notif, sent, session, result) ==
    IF "error" \in DOMAIN result
    THEN send_tx(notif, sent, Plain("ERROR", result.error))
    ELSE IF session.is_new_user
    THEN IF result.auth_success
         THEN send_tx(notif, sent, Line("AUTH_SUCCESS", session.username, "", 0, 0, 0))
         ELSE send_tx(notif, sent, Plain("AUTH_FAILED", "Registration failed"))
    ELSE LET t1 == send_tx(notif, sent,
                           Line("ATTEMPT_RESULT", NoneName,
                                IF result.success THEN "success" ELSE "failed",
                                result.attempt_number, result.total_passed,
                                result.total_attempts))
         IN IF result.auth_complete
            THEN IF result.auth_success
                 THEN send_tx(notif, t1, Line("AUTH_SUCCESS", session.username, "", 0, 0, 0))
                 ELSE send_tx(notif, t1, Line("AUTH_FAILED", NoneName, "Only n/3 attempts passed",
                                              0, result.total_passed, 3))
            ELSE t1

\* RxCharacteristic._do_gesture_recording, run by the oldest pending timeout.
DoGestureRecording ==
    /\ timers # << >>
    /\ LET device_id == Head(timers) IN
       /\ timers' = Tail(timers)
       /\ IF device_id \notin DOMAIN sessions
          THEN /\ tx' = << >>
               /\ last' = Ran("_do_gesture_recording", device_id, [value |-> FALSE],
                              NoGhost, NoVote)
               /\ UNCHANGED <<sessions, users>>
          ELSE LET session == sessions[device_id]
                   attempt_num == session.current_attempt + 1
                   t0 == IF session.is_new_user
                         THEN send_tx(notifying, << >>,
                                      Plain("RECORDING_START", "Will collect 3 gesture samples"))
                         ELSE send_tx(notifying, << >>,
                                      Line("RECORDING_START", NoneName, "Attempt n/3",
                                           attempt_num, 0, 3))
                   st == start_gesture_recording(sessions, device_id)
               IN /\ session.current_attempt < MaxTrials
                  /\ IF st.ret
                     THEN \E env \in Envs(real_mode, session, users) :
                            LET r == process_gesture_attempt(st.sessions, users, real_mode,
                                                             device_id, env)
                                vote == IF r.ghost.kind = "verification"
                                        THEN authenticate_against_gestures(
                                                 get_gesture_list(users, session.username),
                                                 env.distances)
                                        ELSE NoVote
                            IN /\ sessions' = r.sessions
                               /\ users' = r.users
                               /\ tx' = ResultLines(notifying, t0, session, r.ret)
                               /\ last' = [Ran("_do_gesture_recording", device_id, r.ret,
                                               r.ghost, vote)
                                           EXCEPT !.failed_at = FirstBad(env.captures)]
                     ELSE /\ sessions' = st.sessions
                          /\ users' = users
                          /\ tx' = send_tx(notifying, t0, Plain("ERROR", "Recording failed"))
                          /\ last' = Ran("_do_gesture_recording", device_id,
                                         [value |-> FALSE], NoGhost, NoVote)
    /\ UNCHANGED <<real_mode, subscriber_count, notifying, subscribers, m_in, m_out, extVars>>

----------------------------------------------------------------------------
(* RxCharacteristic.WriteValue on the bytes of one write *)

\* str.startswith(prefix)
StartsWith(s, prefix) ==
    Len(s) >= Len(prefix) /\ SubSeq(s, 1, Len(prefix)) = prefix

\* str.split(sep, maxsplit) for a one-character sep; maxsplit -1 is no limit.
RECURSIVE Split(_, _, _)
Split(s, sep, maxsplit) ==
    LET at == {i \in 1..Len(s) : s[i] = sep} IN
    IF at = {} \/ maxsplit = 0
    THEN <<s>>
    ELSE LET i == CHOOSE j \in at : \A k \in at : j <= k
         IN <<SubSeq(s, 1, i - 1)>> \o Split(SubSeq(s, i + 1, Len(s)), sep, maxsplit - 1)

USERNAME_PREFIX == <<"U", "S", "E", "R", "N", "A", "M", "E", ":">>
READY_PREFIX == <<"R", "E", "A", "D", "Y", "_", "F", "O", "R", "_", "G", "E", "S", "T", "U", "R", "E">>
MSG_PREFIX == <<"M", "S", "G", ":">>

\* The state the line handlers read and write.
RxState(S, U, notif, pending, sent) ==
    [sessions |-> S, users |-> U, notifying |-> notif, timers |-> pending, tx |-> sent]

\* _handle_username(message)
RxHandleUsername(st, message) ==
    LET parts == Split(message, ":", 1)
        username == Strip(parts[2])
        device_id == Lower(username)
        S1 == IF device_id \notin DOMAIN st.sessions
              THEN create_session(st.sessions, device_id) ELSE st.sessions
        r == handle_username(S1, st.users, device_id, username)
        tag == CASE r.ret.status = "new_user" -> "NEW_USER"
                 [] r.ret.status = "existing_user" -> "EXISTING_USER"
                 [] OTHER -> "ERROR"
        text == IF r.ret.status = "error"
                THEN "Username must be at least 2 characters" ELSE "Welcome"
    IN [st EXCEPT !.sessions = r.sessions,
                  !.tx = send_tx(st.notifying, st.tx, Plain(tag, text))]

\* _handle_gesture_ready(message)
RxHandleGestureReady(st, message) ==
    LET parts == Split(message, ":", 1) IN
    IF Len(parts) > 1
    THEN LET username == Strip(parts[2])
             device_id == Lower(username)
             refused == IF device_id \notin DOMAIN st.sessions THEN TRUE
                        ELSE st.sessions[device_id].username = NoneName
         IN IF refused
            THEN [st EXCEPT !.tx = send_tx(st.notifying, st.tx,
                                           Plain("ERROR", "Please send username first"))]
            ELSE [st EXCEPT !.timers = Append(st.timers, device_id)]
    ELSE st

\* _handle_chat_message(message)
RxHandleChatMessage(st, message) ==
    LET parts == Split(message, ":", 2) IN
    IF Len(parts) < 3
    THEN st
    ELSE LET username == Strip(parts[2])
             msg_text == Strip(parts[3])
             device_id == Lower(username)
         IN IF ~is_authenticated(st.sessions, device_id)
            THEN [st EXCEPT !.tx = send_tx(st.notifying, st.tx,
                                           Plain("ERROR", "Not authenticated"))]
            ELSE [st EXCEPT !.tx = send_tx(st.notifying, st.tx,
                                           Line("MSG", username, msg_text, 0, 0, 0))]

\* The body of the loop over the complete messages of one write.
Dispatch(st, raw) ==
    LET message == Strip(raw) IN
    IF message = << >> THEN st
    ELSE IF StartsWith(message, USERNAME_PREFIX) THEN RxHandleUsername(st, message)
    ELSE IF StartsWith(message, READY_PREFIX) THEN RxHandleGestureReady(st, message)
    ELSE IF StartsWith(message, MSG_PREFIX) THEN RxHandleChatMessage(st, message)
    ELSE st

\* The loop stops at the first line that no handler accepts.
RECURSIVE ProcessMessages_abort(_, _)
ProcessMessages_abort(st, messages) ==
    IF messages = << >> THEN st
    ELSE LET next == Dispatch(st, Head(messages)) IN
         IF next = st /\ Strip(Head(messages)) # << >>
         THEN st
         ELSE ProcessMessages_abort(next, Tail(messages))

\* for message in messages[:-1]: ...
RECURSIVE ProcessMessages(_, _)
ProcessMessages(st, messages) ==
    IF messages = << >> THEN st
    ELSE ProcessMessages(Dispatch(st, Head(messages)), Tail(messages))

\* What clients write: whole lines, several lines in one write, lines that no
\* handler accepts, and the start of a line.
Fragments ==
    { <<"U", "S", "E", "R", "N", "A", "M", "E", ":", "a", "l", "\n">>,
      <<"R", "E", "A", "D", "Y", "_", "F", "O", "R", "_", "G", "E", "S", "T", "U", "R", "E", ":", "a", "l", "\n">>,
      <<"M", "S", "G", ":", "a", "l", ":", "h", "i", "\n">>,
      <<"P", "I", "N", "G", "\n", "U", "S", "E", "R", "N", "A", "M", "E", ":", "a", "l", "\n">>,
      <<"M", "S", "G", ":", "a", "l", "\n", "R", "E", "A", "D", "Y", "_", "F", "O", "R", "_", "G", "E", "S", "T", "U", "R", "E", ":", "a", "l", "\n">>,
      <<"R", "E", "A", "D", "Y", "_", "F", "O", "R", "_", "G", "E", "S", "T", "U", "R", "E", "\n", "M", "S", "G", ":", "a", "l", ":", "h", "i", "\n">>,
      <<"P", "I">> }

NonEmptyLine(raw) == Strip(raw) # << >>

\* bytearray(value).decode(): UTF-8.  A byte is a one-character string (an
\* ASCII byte) or the name of a byte of the two-byte character U+00E9, "C3"
\* followed by "A9"; the decoded character is "E9".
RECURSIVE Utf8Valid(_)
Utf8Valid(value) ==
    IF value = << >> THEN TRUE
    ELSE IF Head(value) = "C3"
    THEN Len(value) >= 2 /\ value[2] = "A9" /\ Utf8Valid(SubSeq(value, 3, Len(value)))
    ELSE Head(value) # "A9" /\ Utf8Valid(Tail(value))

RECURSIVE Utf8Text(_)
Utf8Text(value) ==
    IF value = << >> THEN << >>
    ELSE IF Head(value) = "C3"
    THEN <<"E9">> \o Utf8Text(SubSeq(value, 3, Len(value)))
    ELSE <<Head(value)>> \o Utf8Text(Tail(value))

\* The try block of WriteValue after the fragment is decoded.
HandleFragment(fragment) ==
    LET buffer == message_buffer \o fragment
        messages == Split(buffer, "\n", -1)
        complete == SubSeq(messages, 1, Len(messages) - 1)
        st == ProcessMessages(RxState(sessions, users, notifying, timers, << >>), complete)
        lines == SelectSeq([i \in 1..Len(complete) |-> Strip(complete[i])], NonEmptyLine)
    IN /\ Len(st.timers) <= MaxTimers
       /\ message_buffer' = messages[Len(messages)]
       /\ sessions' = st.sessions
       /\ timers' = st.timers
       /\ tx' = st.tx
       /\ last' = Ran("WriteValue", NoneName, [value |-> TRUE],
                      [kind |-> "write", captured |-> lines, registered |-> FALSE], NoVote)

\* RxCharacteristic.WriteValue(value) on the bytes of one write: decode()
\* raises UnicodeDecodeError on bytes that are not UTF-8 by themselves, and
\* the except clause drops the write.
WriteBytes(value) ==
    /\ IF Utf8Valid(value)
       THEN HandleFragment(Utf8Text(value))
       ELSE /\ tx' = << >>
            /\ last' = Ran("WriteValue", NoneName, [value |-> FALSE],
                           [kind |-> "write", captured |-> << >>, registered |-> FALSE],
                           NoVote)
            /\ UNCHANGED <<message_buffer, sessions, timers>>
    /\ UNCHANGED <<real_mode, users, subscriber_count, notifying, subscribers,
                   m_in, m_out, relay>>

\* RxCharacteristic.WriteValue(value)
WriteValue(value) ==
    /\ WriteBytes(value)
    /\ Len(message_buffer') <= MaxBuffer
    /\ UNCHANGED <<f_in, f_out>>

\* The byte streams of the clients: lines with blanks around them, an empty
\* line, a line no handler accepts, a line left unfinished, and a name with a
\* two-byte character.
ByteStreams ==
    { <<"U", "S", "E", "R", "N", "A", "M", "E", ":", "a", "l", " ", "\n", "\n",
        "M", "S", "G", ":", "a", "l", ":", "h", "i", "\n", "P", "I">>,
      <<" ", "P", "I", "N", "G", "\n", "R", "E", "A", "D", "Y", "_", "F", "O", "R",
        "_", "G", "E", "S", "T", "U", "R", "E", ":", "a", "l", "\n">>,
      <<"U", "S", "E", "R", "N", "A", "M", "E", ":", "C3", "A9", "l", "\n",
        "M", "S", "G", ":", "C3", "A9", "l", ":", "h", "i", "\n">> }

\* The bytes client c has written so far.
Written(c) == SubSeq(f_in.bytes[c], 1, f_in.pos[c])

\* Client c writes the next k bytes of its stream in one write.  f_out.by is
\* the client whose write dispatched each message.
StreamWrite(c, k) ==
    /\ f_in.fn = "stream"
    /\ c \in DOMAIN f_in.bytes
    /\ f_in.pos[c] + k <= Len(f_in.bytes[c])
    /\ WriteBytes(SubSeq(f_in.bytes[c], f_in.pos[c] + 1, f_in.pos[c] + k))
    /\ f_in' = [f_in EXCEPT !.pos[c] = @ + k]
    /\ f_out' = [f_out EXCEPT !.dispatched = @ \o last'.ghost.captured,
                              !.by = @ \o [i \in 1..Len(last'.ghost.captured) |-> c]]

----------------------------------------------------------------------------
(* authenticator/sensor_collector.py: SensorCollector *)

duration == 4
target_hz == 40
target_points == duration * target_hz

\* raw_data[start_idx:end_idx] for chunk i, as the pair of the first and last
\* sample averaged (1-based); the resampled row is their mean.
Chunk(n, i) ==
    [first |-> ((i * n) \div target_points) + 1,
     last |-> ((i + 1) * n) \div target_points]

NonEmptyChunk(chunk) == chunk.first <= chunk.last

\* resample_to_target_hz(raw_data) for n raw samples: one row per chunk that
\* holds a sample.
resample_to_target_hz(n) ==
    IF n = 0 THEN << >>
    ELSE SelectSeq([k \in 1..target_points |-> Chunk(n, k - 1)], NonEmptyChunk)

\* collect_gesture(): collect_raw_data gave f_in.raw_len samples.
CollectGesture ==
    /\ f_in.fn = "collect_gesture"
    /\ f_out = NoCall
    /\ f_out' = [fn |-> "collect_gesture", value |-> resample_to_target_hz(f_in.raw_len)]
    /\ UNCHANGED <<serverVars, m_in, m_out, message_buffer, relay, f_in>>

----------------------------------------------------------------------------
(* authenticator/authenticator.py: normalize_series on numbers *)

Abs(x) == IF x < 0 THEN -x ELSE x

\* The number of bits of a > 0.
BitLen(a) == CHOOSE k \in 1..30 : 2^(k - 1) <= a /\ a < 2^k

\* a / 2^k rounded to an integer, ties to even.
RoundShift(a, k) ==
    IF k <= 0 THEN a
    ELSE IF a % 2^k > 2^(k - 1) \/ (a % 2^k = 2^(k - 1) /\ (a \div 2^k) % 2 = 1)
    THEN (a \div 2^k) + 1
    ELSE a \div 2^k

TrailingZeros(q) == CHOOSE z \in 0..30 : q % 2^z = 0 /\ q % 2^(z + 1) # 0

\* The number q * 2^e, negated or not, with an odd significand.
Canonical(negative, q, e) ==
    [m |-> (IF negative THEN -1 ELSE 1) * (q \div 2^TrailingZeros(q)),
     e |-> e + TrailingZeros(q)]

\* A binary floating-point number m * 2^e.  Float(M, E) is M * 2^E rounded to
\* FloatBits significant bits, ties to even, as every float64 operation
\* rounds its exact result (to 53 bits); the exponent is not limited.
Float(M, E) ==
    IF M = 0 THEN [m |-> 0, e |-> 0]
    ELSE Canonical(M < 0, RoundShift(Abs(M), BitLen(Abs(M)) - FloatBits),
                   IF BitLen(Abs(M)) > FloatBits THEN E + BitLen(Abs(M)) - FloatBits ELSE E)

fl_add(a, b) ==
    LET e == IF a.e < b.e THEN a.e ELSE b.e
    IN Float(a.m * 2^(a.e - e) + b.m * 2^(b.e - e), e)

fl_sub(a, b) == fl_add(a, [b EXCEPT !.m = -b.m])

fl_mul(a, b) == Float(a.m * b.m, a.e + b.e)

\* The quotient to 2 * FloatBits + 2 further bits, the last bit standing for
\* a remainder, then rounded.
fl_div(a, b) ==
    LET guard == 2 * FloatBits + 2
        am == IF a.m < 0 THEN -a.m ELSE a.m
        bm == IF b.m < 0 THEN -b.m ELSE b.m
        q == (am * 2^guard) \div bm
        M == 2 * q + (IF (am * 2^guard) % bm # 0 THEN 1 ELSE 0)
    IN Float(IF (a.m < 0) # (b.m < 0) THEN -M ELSE M, a.e - b.e - guard - 1)

fl_sqrt(a) ==
    LET guard == FloatBits + 2
        odd == a.e % 2 = 1
        x == (IF odd THEN 2 * a.m ELSE a.m) * 2^(2 * guard)
        e == IF odd THEN a.e - 1 ELSE a.e
        s == CHOOSE z \in 0..2^(2 * FloatBits + 3) : z * z <= x /\ x < (z + 1) * (z + 1)
    IN Float(2 * s + (IF s * s # x THEN 1 ELSE 0), (e \div 2) - guard - 1)

\* np.add.reduce over fewer than 8 numbers: added one after the other.
RECURSIVE np_sum(_)
np_sum(col) ==
    IF col = << >> THEN Float(0, 0)
    ELSE fl_add(np_sum(SubSeq(col, 1, Len(col) - 1)), col[Len(col)])

np_mean(col) == fl_div(np_sum(col), Float(Len(col), 0))

\* np.std: sqrt(mean(abs(x - x.mean()) ** 2))
np_std(col) ==
    LET mean == np_mean(col)
        sq == [i \in 1..Len(col) |-> fl_mul(fl_sub(col[i], mean), fl_sub(col[i], mean))]
    IN fl_sqrt(np_mean(sq))

\* The body of the loop over the columns.
normalize_column(col) ==
    LET mean == np_mean(col)
        std0 == np_std(col)
        std == IF std0.m = 0 THEN Float(1, 0) ELSE std0
    IN [i \in 1..Len(col) |-> fl_div(fl_sub(col[i], mean), std)]

Column(series, c) == [i \in 1..Len(series) |-> series[i][c]]

\* normalize_series(series) on a series of rows <<x, y>>
normalize_series_rows(series) ==
    IF Len(series) = 0 THEN series
    ELSE LET x == normalize_column(Column(series, 1))
             y == normalize_column(Column(series, 2))
         IN [i \in 1..Len(series) |-> <<x[i], y[i]>>]

\* Series whose X axis is constant; the Y axis varies or not.
NormalizeInputs ==
    UNION { { [fn |-> "normalize_series",
               series |-> [i \in 1..n |-> <<Float(c, 0), Float(y[i], 0)>>]] :
                  c \in 1..(2^FloatBits - 1), y \in [1..n -> {1, 2, 4}] } :
            n \in 1..MaxSeries }

NormalizeSeries ==
    /\ f_in.fn = "normalize_series"
    /\ f_out = NoCall
    /\ f_out' = [fn |-> "normalize_series", value |-> normalize_series_rows(f_in.series)]
    /\ UNCHANGED <<serverVars, m_in, m_out, message_buffer, relay, f_in>>

----------------------------------------------------------------------------
(* authenticator/authenticator.py: twed_distance *)

\* np.inf
Infinity == 1000000

\* series.flatten()
RECURSIVE Flatten(_)
Flatten(series) ==
    IF series = << >> THEN << >> ELSE Head(series) \o Flatten(Tail(series))

Min3(a, b, c) == IF a <= b /\ a <= c THEN a ELSE IF b <= c THEN b ELSE c
Plus(a, b) == IF a >= Infinity THEN Infinity ELSE a + b

\* The time penalty is charged on the diagonal too.
RECURSIVE TwedFill_stiff(_, _, _, _, _)
TwedFill_stiff(cost, s1, s2, penalty, k) ==
    LET n == Len(s1)
        m == Len(s2)
        i == ((k - 1) \div m) + 1
        j == ((k - 1) % m) + 1
        d == Abs(s1[i] - s2[j])
        time_penalty == (Abs(i - j) + 1) * penalty
    IN IF k > n * m THEN cost
       ELSE CHOOSE filled \in
                { TwedFill_stiff([c EXCEPT ![<<i, j>>] =
                                 Min3(Plus(c[<<i - 1, j - 1>>], d + time_penalty),
                                      Plus(c[<<i - 1, j>>], time_penalty),
                                      Plus(c[<<i, j - 1>>], time_penalty))],
                           s1, s2, penalty, k + 1) : c \in {cost} } : TRUE

\* The cost table after the cells before cell k (row-major, rows 1..n, columns
\* 1..m) are filled; cost[0, 0] = 0 and the rest of row 0 and column 0 is inf.
\* (c \in {cost} names the table filled so far.)
RECURSIVE TwedFill(_, _, _, _, _)
TwedFill(cost, s1, s2, penalty, k) ==
    LET n == Len(s1)
        m == Len(s2)
        i == ((k - 1) \div m) + 1
        j == ((k - 1) % m) + 1
        d == Abs(s1[i] - s2[j])
        time_penalty == Abs(i - j) * penalty
    IN IF k > n * m THEN cost
       ELSE CHOOSE filled \in
                { TwedFill([c EXCEPT ![<<i, j>>] =
                                 Min3(Plus(c[<<i - 1, j - 1>>], d + time_penalty),
                                      Plus(c[<<i - 1, j>>], time_penalty),
                                      Plus(c[<<i, j - 1>>], time_penalty))],
                           s1, s2, penalty, k + 1) : c \in {cost} } : TRUE

\* twed_distance(series1, series2, penalty): the table, and the returned
\* quotient as the pair <<cost[n, m], max(n, m)>>.
twed_distance(series1, series2, penalty) ==
    LET s1 == Flatten(series1)
        s2 == Flatten(series2)
        n == Len(s1)
        m == Len(s2)
        cost0 == [c \in (0..n) \X (0..m) |-> IF c = <<0, 0>> THEN 0 ELSE Infinity]
        cost == TwedFill(cost0, s1, s2, penalty, 1)
    IN [cost |-> cost, value |-> <<cost[<<n, m>>], IF n > m THEN n ELSE m>>]

TwedSeries ==
    UNION { [1..n -> {0, 1} \X {0, 1}] : n \in 1..MaxTwed }

TwedInputs ==
    { [fn |-> "twed_distance", series1 |-> a, series2 |-> b] :
          a \in TwedSeries, b \in TwedSeries }

TwedDistance ==
    /\ f_in.fn = "twed_distance"
    /\ f_out = NoCall
    /\ f_out' = [fn |-> "twed_distance",
                 result |-> twed_distance(f_in.series1, f_in.series2, 1)]
    /\ UNCHANGED <<serverVars, m_in, m_out, message_buffer, relay, f_in>>

----------------------------------------------------------------------------
(* authenticator/authenticator.py: dtw_distance *)

\* float('inf')
FloatInf == [m |-> 1, e |-> Infinity]

\* a <= b on floats
fl_le(a, b) ==
    IF b = FloatInf THEN TRUE
    ELSE IF a = FloatInf THEN FALSE
    ELSE IF a.e < b.e THEN a.m <= b.m * 2^(b.e - a.e)
    ELSE a.m * 2^(a.e - b.e) <= b.m

fl_plus(a, b) == IF a = FloatInf \/ b = FloatInf THEN FloatInf ELSE fl_add(a, b)

fl_min3(a, b, c) ==
    IF fl_le(a, b) /\ fl_le(a, c) THEN a ELSE IF fl_le(b, c) THEN b ELSE c

\* Every step of the warping path is charged one unit more.
RECURSIVE DtwFill_charged(_, _, _, _)
DtwFill_charged(cost, s1, s2, k) ==
    LET n == Len(s1)
        m == Len(s2)
        i == ((k - 1) \div m) + 1
        j == ((k - 1) % m) + 1
    IN IF k > n * m THEN cost
       ELSE CHOOSE filled \in
                { DtwFill_charged([c EXCEPT ![<<i, j>>] =
                              fl_plus(Float(1, 0),
                                      fl_min3(c[<<i - 1, j - 1>>], c[<<i - 1, j>>],
                                              c[<<i, j - 1>>]))],
                          s1, s2, k + 1) : c \in {cost} } : TRUE

\* The table of dtw.distance (dtaidistance) after the cells before cell k
\* (row-major) are filled: each cell is the squared difference of the two
\* samples plus the least of its three predecessors.
RECURSIVE DtwFill(_, _, _, _)
DtwFill(cost, s1, s2, k) ==
    LET n == Len(s1)
        m == Len(s2)
        i == ((k - 1) \div m) + 1
        j == ((k - 1) % m) + 1
    IN IF k > n * m THEN cost
       ELSE CHOOSE filled \in
                { DtwFill([c EXCEPT ![<<i, j>>] =
                              fl_plus(fl_mul(fl_sub(s1[i], s2[j]), fl_sub(s1[i], s2[j])),
                                      fl_min3(c[<<i - 1, j - 1>>], c[<<i - 1, j>>],
                                              c[<<i, j - 1>>]))],
                          s1, s2, k + 1) : c \in {cost} } : TRUE

\* dtw.distance(s1, s2): the square root of the last cell.
dtw_library_distance(s1, s2) ==
    fl_sqrt(DtwFill([c \in (0..Len(s1)) \X (0..Len(s2)) |->
                         IF c = <<0, 0>> THEN Float(0, 0) ELSE FloatInf],
                    s1, s2, 1)[<<Len(s1), Len(s2)>>])

\* series[:, 1] raises IndexError on a series of one column.
DtwRaises(series1, series2) ==
    \/ \E i \in 1..Len(series1) : Len(series1[i]) < 2
    \/ \E i \in 1..Len(series2) : Len(series2[i]) < 2

dtw_axis(series1, series2, c) ==
    fl_div(dtw_library_distance(Column(series1, c), Column(series2, c)),
           Float(Len(series1), 0))

\* dtw_distance(series1, series2)
dtw_distance(series1, series2) ==
    IF DtwRaises(series1, series2) THEN FloatInf
    ELSE fl_div(fl_add(dtw_axis(series1, series2, 1), dtw_axis(series1, series2, 2)),
                Float(2, 0))

\* distance <= SIMILARITY_THRESHOLD_DTW (0.04 = 40 / 1000)
DtwPassed(distance) ==
    IF distance = FloatInf THEN FALSE
    ELSE IF distance.e >= 0
    THEN distance.m * 2^distance.e * 1000 <= SIMILARITY_THRESHOLD_DTW
    ELSE distance.m * 1000 <= SIMILARITY_THRESHOLD_DTW * 2^(-distance.e)

DtwRaw ==
    UNION { [1..n -> {1, 2, 4} \X {1, 2, 4}] : n \in 1..MaxDtw }

DtwReference == << <<1, 1>>, <<2, 4>> >>

\* series.copy().astype(np.float64), then the normalisation
NormalizedTrace(series) ==
    normalize_series_rows([i \in 1..Len(series) |->
                              <<Float(series[i][1], 0), Float(series[i][2], 0)>>])

OneColumn == << <<Float(0, 0)>>, <<Float(1, 0)>> >>

\* The reference and the test as authenticate_against_gestures passes them,
\* both normalized, and series of one column.
DtwInputs ==
    UNION { { [fn |-> "dtw_distance", series1 |-> NormalizedTrace(b),
               series2 |-> NormalizedTrace(a)] : b \in {a, DtwReference} } :
            a \in DtwRaw }
    \cup { [fn |-> "dtw_distance", series1 |-> a, series2 |-> b] :
              a \in {OneColumn, NormalizedTrace(DtwReference)},
              b \in {OneColumn} }

DtwDistance ==
    /\ f_in.fn = "dtw_distance"
    /\ f_out = NoCall
    /\ f_out' = [fn |-> "dtw_distance",
                 distance |-> dtw_distance(f_in.series1, f_in.series2),
                 passed |-> DtwPassed(dtw_distance(f_in.series1, f_in.series2))]
    /\ UNCHANGED <<serverVars, m_in, m_out, message_buffer, relay, f_in>>

----------------------------------------------------------------------------
(* authenticator/authenticator.py: hmm_distance *)

\* The score is a pair <<log likelihood, samples>>; float('-inf') is
\* <<-Infinity, 1>>.
NegInf == <<-Infinity, 1>>

\* What GaussianHMM does with the data: fit() raises or not, score() raises
\* or not, and the log likelihood score() returns otherwise.
HmmLibrary ==
    [fit_raises : BOOLEAN, score_raises : BOOLEAN, log_likelihood : {-8, -5, -2, 0}]

\* The statement of the try block that raises, "none" if none does:
\* np.vstack of an empty list raises ValueError.
HmmFailure(reference_gestures, test_gesture, library) ==
    IF Len(reference_gestures) = 0 THEN "vstack"
    ELSE IF library.fit_raises THEN "fit"
    ELSE IF library.score_raises THEN "score"
    ELSE "none"

\* The failure is answered with positive infinity.
hmm_distance_positive(reference_gestures, test_gesture, library) ==
    IF HmmFailure(reference_gestures, test_gesture, library) # "none"
    THEN [raised |-> FALSE, value |-> <<Infinity, 1>>]
    ELSE [raised |-> FALSE,
          value |-> <<library.log_likelihood, Len(Flatten(test_gesture))>>]

\* hmm_distance(reference_gestures, test_gesture): every failure is an
\* Exception, which the except clause turns into float('-inf').
hmm_distance(reference_gestures, test_gesture, library) ==
    IF HmmFailure(reference_gestures, test_gesture, library) # "none"
    THEN [raised |-> FALSE, value |-> NegInf]
    ELSE [raised |-> FALSE,
          value |-> <<library.log_likelihood, Len(Flatten(test_gesture))>>]

\* hmm_score_val >= SIMILARITY_THRESHOLD_HMM (-1.25 = -125 / 100)
HmmPassed(score) == score[1] * 100 >= SIMILARITY_THRESHOLD_HMM * score[2]

HmmInputs ==
    { [fn |-> "hmm_distance", reference_gestures |-> refs, test_gesture |-> t,
       library |-> lib] :
          refs \in { << >>, <<NormalizedTrace(DtwReference)>>,
                     <<NormalizedTrace(DtwReference), NormalizedTrace(DtwReference)>> },
          t \in { NormalizedTrace(DtwReference), NormalizedTrace(<< <<1, 2>> >>) },
          lib \in HmmLibrary }

HmmDistance ==
    /\ f_in.fn = "hmm_distance"
    /\ f_out = NoCall
    /\ f_out' = [fn |-> "hmm_distance",
                 result |-> hmm_distance(f_in.reference_gestures, f_in.test_gesture,
                                         f_in.library),
                 passed |-> HmmPassed(hmm_distance(f_in.reference_gestures,
                                                   f_in.test_gesture, f_in.library).value)]
    /\ UNCHANGED <<serverVars, m_in, m_out, message_buffer, relay, f_in>>

----------------------------------------------------------------------------
(* Direct use of the matcher (gesture_api.GestureAPI.authenticate) *)

MatcherIdle == [called |-> FALSE, is_authenticated |-> FALSE, results |-> EmptyDict]

MatcherInputs ==
    UNION { { [gesture_list |-> [i \in 1..n |-> Trace(1, GestureRows, FALSE)],
               distances |-> ds] : ds \in [1..n -> DistValues] } : n \in 0..MaxRefs }

Authenticate ==
    /\ ~m_out.called
    /\ LET r == authenticate_against_gestures(m_in.gesture_list, m_in.distances)
       IN m_out' = [called |-> TRUE, is_authenticated |-> r.is_authenticated,
                    results |-> r.results]
    /\ UNCHANGED <<m_in, real_mode, sessions, users, subscriber_count, notifying,
                   subscribers, timers, tx, last, extVars>>

----------------------------------------------------------------------------
(* Direct use of AuthenticationManager, with device ids chosen by the caller *)

DeviceIds == { <<"d", "1">>, <<"d", "2">> }

HadAttempts(S, device_id) ==
    IF device_id \in DOMAIN S THEN S[device_id].attempts # << >> ELSE FALSE

MgrUnchanged == UNCHANGED <<real_mode, subscriber_count, notifying, subscribers, timers, tx,
                            m_in, m_out, extVars>>

MgrHandleUsername(device_id, name) ==
    LET r == handle_username(sessions, users, device_id, name)
    IN /\ sessions' = r.sessions
       /\ last' = [Ran("handle_username", device_id, r.ret, NoGhost, NoVote)
                   EXCEPT !.had_attempts = HadAttempts(sessions, device_id)]
       /\ UNCHANGED users
       /\ MgrUnchanged

MgrStartRecording(device_id) ==
    LET r == start_gesture_recording(sessions, device_id)
    IN /\ device_id \in DOMAIN sessions => sessions[device_id].current_attempt < MaxMgrTrials
       /\ sessions' = r.sessions
       /\ last' = Ran("start_gesture_recording", device_id, [value |-> r.ret], NoGhost, NoVote)
       /\ UNCHANGED users
       /\ MgrUnchanged

\* The callers run process_gesture_attempt when start_gesture_recording
\* returned True (auth_server.py:217-221), or on a device without a session.
MgrProcessAttempt(device_id) ==
    /\ IF device_id \in DOMAIN sessions THEN sessions[device_id].state = "recording" ELSE TRUE
    /\ \E env \in IF device_id \in DOMAIN sessions
                   THEN Envs(real_mode, sessions[device_id], users) ELSE {DefaultEnv} :
          LET r == process_gesture_attempt(sessions, users, real_mode, device_id, env)
          IN /\ sessions' = r.sessions
             /\ users' = r.users
             /\ last' = [Ran("process_gesture_attempt", device_id, r.ret, r.ghost, NoVote)
                         EXCEPT !.failed_at = FirstBad(env.captures)]
    /\ MgrUnchanged

MgrResetSession(device_id) ==
    /\ sessions' = reset_session(sessions, device_id)
    /\ last' = [Ran("reset_session", device_id, [value |-> device_id \in DOMAIN sessions],
                    NoGhost, NoVote)
                EXCEPT !.had_attempts = HadAttempts(sessions, device_id)]
    /\ UNCHANGED users
    /\ MgrUnchanged

MgrRemoveSession(device_id) ==
    /\ sessions' = remove_session(sessions, device_id)
    /\ last' = Ran("remove_session", device_id, [value |-> device_id \in DOMAIN sessions],
                   NoGhost, NoVote)
    /\ UNCHANGED users
    /\ MgrUnchanged

----------------------------------------------------------------------------
(* server/multi_client_server.py: the relay without authentication *)

\* UartApplication adds one UartService, which owns one TxCharacteristic.
TxCharacteristics == {0}
\* The BLE centrals that may connect.
Centrals == {1, 2, 3}
RelayTexts == { <<"h", "i">>, <<"y", "o">>, <<"o", "k">> }

Elems(seq) == {seq[i] : i \in 1..Len(seq)}

\* list.remove(x): the first occurrence goes.
RemoveFirst(seq, x) ==
    LET at == {i \in 1..Len(seq) : seq[i] = x} IN
    IF at = {} THEN seq
    ELSE LET i == CHOOSE j \in at : \A k \in at : j <= k
         IN SubSeq(seq, 1, i - 1) \o SubSeq(seq, i + 1, Len(seq))

\* TxCharacteristic.StartNotify of characteristic t
RelayStartNotify(R, t) ==
    IF R.notifying[t] THEN R
    ELSE [R EXCEPT !.notifying[t] = TRUE,
                   !.connected_clients = IF t \notin Elems(@) THEN Append(@, t) ELSE @]

\* TxCharacteristic.StopNotify of characteristic t
RelayStopNotify(R, t) ==
    IF ~R.notifying[t] THEN R
    ELSE [R EXCEPT !.notifying[t] = FALSE,
                   !.connected_clients = IF t \in Elems(@) THEN RemoveFirst(@, t) ELSE @]

\* TxCharacteristic.send_tx of characteristic t: the notification reaches the
\* centrals subscribed to t.
RelaySendTx(R, t, message) ==
    IF ~R.notifying[t] THEN R
    ELSE [R EXCEPT !.received =
              [c \in Centrals |-> IF c \in R.subscribed[t] THEN Append(@[c], message)
                                   ELSE @[c]]]

\* broadcast_message(message, source_client), from position i of connected_clients
RECURSIVE broadcast_message(_, _, _, _)
broadcast_message(R, message, source_client, i) ==
    IF i > Len(R.connected_clients) THEN R
    ELSE LET client_tx == R.connected_clients[i] IN
         broadcast_message(IF client_tx # source_client
                           THEN RelaySendTx(R, client_tx, message) ELSE R,
                           message, source_client, i + 1)

NothingReceived == [c \in Centrals |-> << >>]

\* Central c enables notifications on the TX characteristic of service t.
RelaySubscribe(c, t) ==
    /\ c \notin relay.subscribed[t]
    /\ relay' = [RelayStartNotify(relay, t) EXCEPT !.subscribed[t] = @ \cup {c},
                                                     !.received = NothingReceived,
                                                     !.written = [by |-> 0, message |-> << >>]]
    /\ UNCHANGED <<serverVars, m_in, m_out, message_buffer, f_in, f_out>>

\* Central c disables them.
RelayUnsubscribe(c, t) ==
    /\ c \in relay.subscribed[t]
    /\ relay' = [RelayStopNotify(relay, t) EXCEPT !.subscribed[t] = @ \ {c},
                                                    !.received = NothingReceived,
                                                    !.written = [by |-> 0, message |-> << >>]]
    /\ UNCHANGED <<serverVars, m_in, m_out, message_buffer, f_in, f_out>>

\* RxCharacteristic.WriteValue of service t, written by central c.
RelayWriteValue(c, t, message) ==
    /\ LET sender_tx == t
           R == [relay EXCEPT !.received = NothingReceived,
                              !.written = [by |-> c, message |-> message]]
       IN relay' = broadcast_message(R, message, sender_tx, 1)
    /\ UNCHANGED <<serverVars, m_in, m_out, message_buffer, f_in, f_out>>

----------------------------------------------------------------------------
(* Direct use of UserDatabase *)

StoreNames == { <<"A", "l">>, <<"a", "l">>, <<"B", "o">> }
StoreTimes == {1, 2}
StoreGestures == { [i \in 1..num_samples |-> Trace(id, GestureRows, TRUE)] : id \in TraceIds }

\* datetime.now() is not before any timestamp already stored.
StoreClock ==
    { t \in StoreTimes :
          \A k \in DOMAIN users : t >= users[k].created_at /\ t >= users[k].last_login }

StoreUnchanged == UNCHANGED <<real_mode, sessions, subscriber_count, notifying, subscribers,
                              timers, tx, m_in, m_out, extVars>>

StoreRegister(username, gesture_list) ==
    /\ \E now \in StoreClock :
          LET r == register_user(users, username, gesture_list, now)
          IN /\ users' = r.users
             /\ last' = Ran("register_user", username, [value |-> r.ret],
                            [kind |-> "store", captured |-> gesture_list,
                             registered |-> r.ret],
                            NoVote)
    /\ StoreUnchanged

StoreUpdateLastLogin(username) ==
    /\ \E now \in StoreClock :
          users' = update_last_login(users, username, now)
    /\ last' = Ran("update_last_login", username, [value |-> TRUE], NoGhost, NoVote)
    /\ StoreUnchanged

\* user_exists, get_gesture_list and get_all_users called with one name.
StoreLookup(username) ==
    /\ last' = Ran("lookup", username, [value |-> user_exists(users, username)],
                   [kind |-> "lookup", captured |-> get_gesture_list(users, username),
                    registered |-> FALSE, all_users |-> get_all_users(users)],
                   NoVote)
    /\ UNCHANGED users
    /\ StoreUnchanged

----------------------------------------------------------------------------
(* Specifications *)

\* users.json as found at start-up: absent, or holding a record without gestures.
InitialUsers ==
    { EmptyDict,
      [k \in { <<"a", "l">> } |->
          [username |-> <<"A", "l">>, gesture_list |-> << >>, num_gestures |-> 0,
           created_at |-> 1, last_login |-> NoneTime]] }

\* Nothing written yet, no central subscribed to the relay, no direct call made.
RelayIdle ==
    [connected_clients |-> << >>,
     notifying |-> [t \in TxCharacteristics |-> FALSE],
     subscribed |-> [t \in TxCharacteristics |-> {}],
     received |-> [c \in Centrals |-> << >>],
     written |-> [by |-> 0, message |-> << >>]]

ExtIdle ==
    /\ message_buffer = << >>
    /\ relay = RelayIdle
    /\ f_in = NoCall
    /\ f_out = NoCall

ServerIdle ==
    /\ sessions = EmptyDict
    /\ subscriber_count = 0
    /\ notifying = FALSE
    /\ subscribers = {}
    /\ timers = << >>
    /\ tx = << >>
    /\ last = Ran("init", NoneName, [value |-> TRUE], NoGhost, NoVote)

Init ==
    /\ real_mode \in BOOLEAN
    /\ users \in InitialUsers
    /\ ServerIdle
    /\ m_in = [gesture_list |-> << >>, distances |-> << >>]
    /\ m_out = MatcherIdle
    /\ ExtIdle

Next ==
    \/ \E c \in Clients : StartNotify(c)
    \/ \E c \in Clients : StopNotify(c)
    \/ \E name \in Names : HandleUsername(name)
    \/ \E name \in Names : HandleGestureReady(name)
    \/ \E name \in Names, text \in Texts : HandleChatMessage(name, text)
    \/ DoGestureRecording

Spec == Init /\ [][Next]_vars

InitMgr ==
    /\ real_mode \in BOOLEAN
    /\ users = EmptyDict
    /\ ServerIdle
    /\ m_in = [gesture_list |-> << >>, distances |-> << >>]
    /\ m_out = MatcherIdle
    /\ ExtIdle

NextMgr ==
    \/ \E device_id \in DeviceIds, name \in Names : MgrHandleUsername(device_id, name)
    \/ \E device_id \in DeviceIds : MgrStartRecording(device_id)
    \/ \E device_id \in DeviceIds : MgrProcessAttempt(device_id)
    \/ \E device_id \in DeviceIds : MgrResetSession(device_id)
    \/ \E device_id \in DeviceIds : MgrRemoveSession(device_id)

SpecMgr == InitMgr /\ [][NextMgr]_vars

InitStore ==
    /\ real_mode = TRUE
    /\ users \in InitialUsers
    /\ ServerIdle
    /\ m_in = [gesture_list |-> << >>, distances |-> << >>]
    /\ m_out = MatcherIdle
    /\ ExtIdle

NextStore ==
    \/ \E username \in StoreNames, gesture_list \in StoreGestures :
          StoreRegister(username, gesture_list)
    \/ \E username \in StoreNames : StoreUpdateLastLogin(username)
    \/ \E username \in StoreNames : StoreLookup(username)

SpecStore == InitStore /\ [][NextStore]_vars

\* users.json holding the template registered as "Al" by an earlier run.
TemplateStore ==
    [k \in { <<"a", "l">> } |->
        [username |-> <<"A", "l">>,
         gesture_list |-> [i \in 1..num_samples |-> Trace(1, GestureRows, TRUE)],
         num_gestures |-> num_samples, created_at |-> 1, last_login |-> NoneTime]]

InitTrials ==
    /\ real_mode \in BOOLEAN
    /\ users = TemplateStore
    /\ ServerIdle
    /\ m_in = [gesture_list |-> << >>, distances |-> << >>]
    /\ m_out = MatcherIdle
    /\ ExtIdle

\* Each client sends its USERNAME line once, and then sends READY_FOR_GESTURE
\* again and again.
FirstUsername(name) ==
    /\ Lower(Strip(name)) \notin DOMAIN sessions
    /\ HandleUsername(name)

NextTrials ==
    \/ \E name \in Names : FirstUsername(name)
    \/ \E name \in Names : HandleGestureReady(name)
    \/ DoGestureRecording

\* The GLib main loop runs every pending timeout, and every capture returns;
\* the client of a stored user keeps sending READY_FOR_GESTURE.
SpecTrials ==
    /\ InitTrials
    /\ [][NextTrials]_vars
    /\ WF_vars(DoGestureRecording)
    /\ \A d \in DOMAIN TemplateStore :
          WF_vars(\E name \in Names : Lower(Strip(name)) = d /\ HandleGestureReady(name))

InitRelay ==
    /\ real_mode = FALSE
    /\ users = EmptyDict
    /\ ServerIdle
    /\ m_in = [gesture_list |-> << >>, distances |-> << >>]
    /\ m_out = MatcherIdle
    /\ ExtIdle

NextRelay ==
    \/ \E c \in Centrals, t \in TxCharacteristics : RelaySubscribe(c, t)
    \/ \E c \in Centrals, t \in TxCharacteristics : RelayUnsubscribe(c, t)
    \/ \E c \in Centrals, t \in TxCharacteristics, message \in RelayTexts :
          RelayWriteValue(c, t, message)

SpecRelay == InitRelay /\ [][NextRelay]_vars

\* One recording: the sensor loop ran at least once.
InitCollect ==
    /\ real_mode = TRUE
    /\ users = EmptyDict
    /\ ServerIdle
    /\ m_in = [gesture_list |-> << >>, distances |-> << >>]
    /\ m_out = MatcherIdle
    /\ message_buffer = << >>
    /\ relay = RelayIdle
    /\ f_in \in { [fn |-> "collect_gesture", raw_len |-> n] : n \in 1..MaxRaw }
    /\ f_out = NoCall

NextCollect == CollectGesture

SpecCollect == InitCollect /\ [][NextCollect]_vars

\* normalize_series and twed_distance called directly.
InitNumeric ==
    /\ real_mode = TRUE
    /\ users = EmptyDict
    /\ ServerIdle
    /\ m_in = [gesture_list |-> << >>, distances |-> << >>]
    /\ m_out = MatcherIdle
    /\ message_buffer = << >>
    /\ relay = RelayIdle
    /\ f_in \in NormalizeInputs \cup TwedInputs \cup DtwInputs \cup HmmInputs
    /\ f_out = NoCall

NextNumeric ==
    \/ NormalizeSeries
    \/ TwedDistance
    \/ DtwDistance
    \/ HmmDistance

SpecNumeric == InitNumeric /\ [][NextNumeric]_vars

\* The server in dummy mode, driven by raw writes.
InitWrite ==
    /\ real_mode = FALSE
    /\ users = EmptyDict
    /\ ServerIdle
    /\ m_in = [gesture_list |-> << >>, distances |-> << >>]
    /\ m_out = MatcherIdle
    /\ ExtIdle

NextWrite ==
    \/ \E c \in Clients : StartNotify(c)
    \/ \E c \in Clients : StopNotify(c)
    \/ \E fragment \in Fragments : WriteValue(fragment)
    \/ DoGestureRecording

SpecWrite == InitWrite /\ [][NextWrite]_vars

\* One client writes one byte stream, cut into writes at any places.
InitStream ==
    /\ real_mode = FALSE
    /\ users = EmptyDict
    /\ ServerIdle
    /\ m_in = [gesture_list |-> << >>, distances |-> << >>]
    /\ m_out = MatcherIdle
    /\ message_buffer = << >>
    /\ relay = RelayIdle
    /\ f_in \in { [fn |-> "stream", bytes |-> [c \in {1} |-> b], pos |-> [c \in {1} |-> 0]] :
                     b \in ByteStreams }
    /\ f_out = [fn |-> "stream", dispatched |-> << >>, by |-> << >>]

NextStream == \E k \in 1..MaxWrite : StreamWrite(1, k)

SpecStream == InitStream /\ [][NextStream]_vars

\* What each of two subscribed clients writes, cut into writes at any places
\* and interleaved in any order.
ClientStreams ==
    1 :> <<"U", "S", "E", "R", "N", "A", "M", "E", ":", "a", "l", "\n">>
    @@ 2 :> <<"P", "I", "\n">>

InitInterleave ==
    /\ real_mode = FALSE
    /\ users = EmptyDict
    /\ sessions = EmptyDict
    /\ subscriber_count = 2
    /\ notifying = TRUE
    /\ subscribers = Clients
    /\ timers = << >>
    /\ tx = << >>
    /\ last = Ran("init", NoneName, [value |-> TRUE], NoGhost, NoVote)
    /\ m_in = [gesture_list |-> << >>, distances |-> << >>]
    /\ m_out = MatcherIdle
    /\ message_buffer = << >>
    /\ relay = RelayIdle
    /\ f_in = [fn |-> "stream", bytes |-> ClientStreams,
               pos |-> [c \in DOMAIN ClientStreams |-> 0]]
    /\ f_out = [fn |-> "stream", dispatched |-> << >>, by |-> << >>]

NextInterleave == \E c \in DOMAIN ClientStreams, k \in 1..MaxWrite : StreamWrite(c, k)

SpecInterleave == InitInterleave /\ [][NextInterleave]_vars

InitMatcher ==
    /\ real_mode = TRUE
    /\ users = EmptyDict
    /\ ServerIdle
    /\ m_in \in MatcherInputs
    /\ m_out = MatcherIdle
    /\ ExtIdle

NextMatcher == Authenticate

SpecMatcher == InitMatcher /\ [][NextMatcher]_vars

----------------------------------------------------------------------------
(* Properties *)

Recorded == last.op = "_do_gesture_recording" /\ last.dev \in DOMAIN sessions

\* The accept flags of a session's attempt records, in order.
Flags(session) == [i \in 1..Len(session.attempts) |-> session.attempts[i].success]

Accepted(session) == Cardinality({i \in 1..Len(session.attempts) : session.attempts[i].success})

\* The recording just run was verification trial number n.
TrialDone(n) ==
    /\ Recorded
    /\ last.ghost.kind = "verification"
    /\ last.ret.attempt_number = n

\* C1: when the third verification trial of a session completes, the session
\* holds three attempt records and is finalized: AUTHENTICATED if and only if at
\* least 2 of the 3 accept flags are true, UNAUTHENTICATED otherwise, whatever
\* the confidences recorded with them.
C1_ThirdTrialFinalizes ==
    TrialDone(max_attempts) =>
        LET session == sessions[last.dev] IN
        /\ Len(session.attempts) = 3
        /\ session.state \in {"authenticated", "unauthenticated"}
        /\ session.state = "authenticated" <=> Accepted(session) >= 2
        /\ last.ret.auth_complete
        /\ last.ret.auth_success <=> Accepted(session) >= 2

\* A third trial just completed the sequence accept, reject, accept and the
\* session is AUTHENTICATED.
C1_Witness ==
    /\ TrialDone(max_attempts)
    /\ Flags(sessions[last.dev]) = <<TRUE, FALSE, TRUE>>
    /\ sessions[last.dev].state = "authenticated"

\* A verification session finalized as UNAUTHENTICATED by its third trial.
FinalizedUnauthenticated(S, d) ==
    /\ d \in DOMAIN S
    /\ ~S[d].is_new_user
    /\ S[d].state = "unauthenticated"
    /\ S[d].current_attempt = max_attempts
    /\ Len(S[d].attempts) = max_attempts

\* C2: once a verification session was finalized as UNAUTHENTICATED after its
\* third trial, no step other than a username submission for that identity
\* records a further attempt, changes the attempt history or makes the session
\* AUTHENTICATED.
C2_FinalizedStaysRejected ==
    [][\A d \in DOMAIN sessions :
          (/\ FinalizedUnauthenticated(sessions, d)
           /\ d \in DOMAIN sessions'
           /\ ~(last'.op = "_handle_username" /\ last'.dev = d))
          => /\ sessions'[d].attempts = sessions[d].attempts
             /\ sessions'[d].current_attempt = sessions[d].current_attempt
             /\ sessions'[d].state # "authenticated"]_vars

\* C3: a gesture attempt leaves its session AUTHENTICATED only if the store's
\* register_user returned true for that registration, or at least 2 accepted
\* verification trials are recorded in the session; a refused store write never
\* results in AUTHENTICATED.
C3_AuthenticatedOnlyIfStoredOrAccepted ==
    (Recorded /\ sessions[last.dev].state = "authenticated") =>
        \/ last.ghost.kind = "registration" /\ last.ghost.registered
        \/ last.ghost.kind = "verification" /\ Accepted(sessions[last.dev]) >= 2

\* C4: in every reachable state every session has current_attempt <=
\* max_attempts and at most 3 attempt records.
C4_AtMostThreeTrials ==
    \A d \in DOMAIN sessions :
        /\ sessions[d].current_attempt <= max_attempts
        /\ Len(sessions[d].attempts) <= max_attempts

\* C5: in real-sensor mode the record appended by a verification trial is the
\* matcher's result for the gesture performed: accepted equals the majority
\* vote over the stored references, confidence equals passed_count/total_count,
\* and the session holds one record per trial.
C5_RecordIsMatcherResult ==
    (real_mode /\ Recorded /\ last.ghost.kind = "verification") =>
        LET session == sessions[last.dev]
            record == session.attempts[Len(session.attempts)]
        IN /\ Len(session.attempts) = session.current_attempt
           /\ record.success = last.vote.is_authenticated
           /\ record.confidence[1] * last.vote.results.total_count
                 = last.vote.results.passed_count * record.confidence[2]

\* The references of the direct matcher call whose distance passes the threshold.
PassingRefs ==
    {i \in 1..Len(m_in.gesture_list) : m_in.distances[i] <= SIMILARITY_THRESHOLD_DTW}

\* C6: for every reference list of size total_count >= 1 and every combination
\* of per-reference passes, the matcher reports the number of passing references
\* and the list size, and accepts if and only if passed_count > total_count / 2.
C6_StrictMajority ==
    (m_out.called /\ Len(m_in.gesture_list) >= 1) =>
        /\ m_out.results.passed_count = Cardinality(PassingRefs)
        /\ m_out.results.total_count = Len(m_in.gesture_list)
        /\ m_out.is_authenticated <=>
               2 * Cardinality(PassingRefs) > Len(m_in.gesture_list)

\* The matcher was called on two references of which exactly one passes: a tie,
\* which it rejects.
C6_Witness ==
    /\ m_out.called
    /\ Len(m_in.gesture_list) = 2
    /\ Cardinality(PassingRefs) = 1
    /\ ~m_out.is_authenticated

\* The recording just run was on a verification session whose user has no
\* stored references (the record is absent or its gesture list is empty).
RecordedWithoutReferences ==
    /\ Recorded
    /\ last.ret # [value |-> FALSE]
    /\ ~sessions[last.dev].is_new_user
    /\ get_gesture_list(users, sessions[last.dev].username) = NoneList

\* C7: a verification attempt for a user without stored references returns an
\* error result, records no attempt and does not leave the session
\* AUTHENTICATED; the matcher itself rejects an empty reference list with an
\* empty result, and the confidence computed from that result is 0.
C7_NoReferencesIsFailure ==
    RecordedWithoutReferences =>
        LET session == sessions[last.dev]
            vote == authenticate_against_gestures(
                        get_gesture_list(users, session.username), << >>)
        IN /\ "error" \in DOMAIN last.ret
           /\ session.attempts = << >>
           /\ session.state # "authenticated"
           /\ ~is_authenticated(sessions, last.dev)
           /\ ~vote.is_authenticated
           /\ vote.results = EmptyDict
           /\ DictGet(vote.results, "total_count", 1) > 0

\* A recording ran for an existing user whose record holds no gestures and
\* returned the error result.
C7_Witness ==
    /\ RecordedWithoutReferences
    /\ sessions[last.dev].current_attempt >= 1
    /\ last.ret = [error |-> "No gestures found for user"]

\* The recording just run was a registration whose captures all succeeded
\* with the right shape.
RegistrationCaptured ==
    /\ Recorded
    /\ sessions[last.dev].is_new_user
    /\ last.ret # [value |-> FALSE]
    /\ last.failed_at = 0

\* C8: after a registration whose 3 captures all succeeded, the store holds a
\* template for the session's username whose gesture list is exactly those 3
\* traces, with num_gestures = 3, and the session is AUTHENTICATED.
C8_RegistrationPersistsCaptures ==
    RegistrationCaptured =>
        LET session == sessions[last.dev]
            key == Lower(session.username)
        IN /\ key \in DOMAIN users
           /\ users[key].gesture_list = last.ghost.captured
           /\ Len(users[key].gesture_list) = 3
           /\ users[key].num_gestures = 3
           /\ session.state = "authenticated"

\* The step is a registration in which some capture failed.
RegistrationFailedStep ==
    /\ last'.op = "_do_gesture_recording"
    /\ last'.dev \in DOMAIN sessions'
    /\ sessions'[last'.dev].is_new_user
    /\ last'.failed_at > 0

\* C9: a registration in which any of the 3 captures fails, at whichever
\* sample index, leaves the template store exactly as it was.
C9_FailedRegistrationStoresNothing ==
    [][RegistrationFailedStep => users' = users]_vars

\* A registration failed at its second or third capture, after at least one
\* good capture, and the store holds no record for the username.
C9_Witness ==
    /\ Recorded
    /\ sessions[last.dev].is_new_user
    /\ last.failed_at >= 2
    /\ Lower(sessions[last.dev].username) \notin DOMAIN users

\* C10: after a registration attempt in which a capture failed, the session's
\* lifecycle state is UNAUTHENTICATED.
C10_FailedRegistrationUnauthenticated ==
    (Recorded /\ sessions[last.dev].is_new_user /\ last.failed_at > 0) =>
        sessions[last.dev].state = "unauthenticated"

\* The step is a username submission that the manager rejected as too short.
ShortUsernameStep ==
    /\ last'.op = "_handle_username"
    /\ last'.ret.status = "error"

\* C11: a username submission shorter than 2 characters after trimming changes
\* no state: the session table after the call equals the one before it.
C11_ShortUsernameNoStateChange ==
    [][ShortUsernameStep => sessions' = sessions]_vars

\* The step is a username submission that the manager accepted.
ValidUsernameStep ==
    /\ last'.op = "_handle_username"
    /\ last'.ret.status # "error"

\* C12: a valid username submission leaves exactly the fresh session for its
\* identity: state WAITING_USERNAME, current_attempt = 0, no attempt records,
\* whatever session the identity had before.
C12_UsernameRecreatesSession ==
    [][ValidUsernameStep =>
          /\ last'.dev \in DOMAIN sessions'
          /\ sessions'[last'.dev].state = "waiting_username"
          /\ sessions'[last'.dev].current_attempt = 0
          /\ sessions'[last'.dev].attempts = << >>
          /\ sessions'[last'.dev].username = last'.ret.username]_vars

\* A valid username submission has just replaced a session that held attempt
\* records.
C12_Witness ==
    /\ last.op = "_handle_username"
    /\ last.ret.status # "error"
    /\ last.had_attempts
    /\ sessions[last.dev].attempts = << >>

\* Some stored record's display name equals name, letter case ignored.
StoredIgnoringCase(name) ==
    \E k \in DOMAIN users : Lower(users[k].username) = Lower(name)

\* C13: after a valid username submission the session is marked is_new_user,
\* and the reply is new_user, if and only if no record is stored under the
\* name compared case-insensitively; otherwise the reply is existing_user.
C13_RoutingIgnoresCase ==
    (last.op = "_handle_username" /\ last.ret.status # "error") =>
        LET session == sessions[last.dev] IN
        /\ session.is_new_user <=> ~StoredIgnoringCase(last.ret.username)
        /\ last.ret.status = "new_user" <=> ~StoredIgnoringCase(last.ret.username)
        /\ last.ret.status = "existing_user" <=> StoredIgnoringCase(last.ret.username)

\* "al" was submitted while the store holds gestures registered as "Al": the
\* reply is existing_user.
C13_Witness ==
    /\ last.op = "_handle_username"
    /\ last.ret = [status |-> "existing_user", username |-> <<"a", "l">>]
    /\ <<"a", "l">> \in DOMAIN users
    /\ users[<<"a", "l">>].username = <<"A", "l">>
    /\ users[<<"a", "l">>].num_gestures = 3
    /\ ~sessions[last.dev].is_new_user

\* The outbound lines of the last handler that carry a chat message.
RelayedLines == {i \in 1..Len(tx) : tx[i].tag = "MSG"}

ChatHandled == last.op = "_handle_chat_message"

\* C14: a chat line MSG:<name>:<text> is relayed only if the session of
\* identity <name> is AUTHENTICATED when it arrives; otherwise no chat line
\* goes out and the only line handed to the subscribers is ERROR:Not
\* authenticated.
C14_RelayOnlyIfAuthenticated ==
    ChatHandled =>
        LET authenticated == /\ last.dev \in DOMAIN sessions
                             /\ sessions[last.dev].state = "authenticated"
        IN /\ RelayedLines # {} => authenticated
           /\ ~authenticated =>
                 /\ RelayedLines = {}
                 /\ \A i \in 1..Len(tx) : tx[i] = Plain("ERROR", "Not authenticated")
                 /\ notifying => Len(tx) = 1

\* A chat line of an AUTHENTICATED identity was relayed.
C14_Witness ==
    /\ ChatHandled
    /\ RelayedLines # {}
    /\ sessions[last.dev].state = "authenticated"

\* C15: the subscribed clients that receive a relayed chat line do not
\* include the client that sent it.
C15_SenderExcluded ==
    (ChatHandled /\ RelayedLines # {}) => last.dev \notin subscribers

\* C16: every subscribed client that receives a relayed chat line has an
\* AUTHENTICATED identity.
C16_RecipientsAuthenticated ==
    (ChatHandled /\ RelayedLines # {}) =>
        \A c \in subscribers :
            c \in DOMAIN sessions /\ sessions[c].state = "authenticated"

\* C17: after a client unsubscribes, its identity has no session and is not
\* authenticated, whether or not other clients remain subscribed.
C17_DisconnectDestroysSession ==
    last.op = "StopNotify" =>
        /\ last.dev \notin DOMAIN sessions
        /\ ~is_authenticated(sessions, last.dev)

\* C18: reset on an identity with a session leaves it in WAITING_USERNAME with
\* no username, no attempt records and current_attempt = 0, and
\* start_gesture_recording then refuses it and changes nothing; reset on an
\* identity without a session leaves the session table as it was.
C18_ResetClearsSession ==
    [][last'.op = "reset_session" =>
          IF last'.dev \in DOMAIN sessions
          THEN /\ last'.dev \in DOMAIN sessions'
               /\ sessions'[last'.dev].state = "waiting_username"
               /\ sessions'[last'.dev].username = NoneName
               /\ sessions'[last'.dev].attempts = << >>
               /\ sessions'[last'.dev].current_attempt = 0
               /\ start_gesture_recording(sessions', last'.dev)
                      = [sessions |-> sessions', ret |-> FALSE]
          ELSE sessions' = sessions]_vars

\* A session that held attempt records has just been reset.
C18_Witness ==
    /\ last.op = "reset_session"
    /\ last.had_attempts
    /\ sessions[last.dev].state = "waiting_username"
    /\ sessions[last.dev].username = NoneName

ManagerOps == {"handle_username", "start_gesture_recording", "process_gesture_attempt",
               "reset_session"}

\* C19: handle_username, start_gesture_recording, process_gesture_attempt and
\* reset_session on one device id leave the session of every other device id
\* as it was, and create no session for another device id.
C19_SessionsIndependent ==
    [][last'.op \in ManagerOps =>
          /\ DOMAIN sessions' \ {last'.dev} = DOMAIN sessions \ {last'.dev}
          /\ \A e \in DOMAIN sessions \ {last'.dev} : sessions'[e] = sessions[e]]_vars

\* A registration has just authenticated one device while another device is
\* in the middle of its verification trials.
C19_Witness ==
    /\ last.op = "process_gesture_attempt"
    /\ last.dev \in DOMAIN sessions
    /\ sessions[last.dev].state = "authenticated"
    /\ \E e \in DOMAIN sessions \ {last.dev} :
          /\ sessions[e].state = "recording"
          /\ sessions[e].current_attempt = 2
          /\ Len(sessions[e].attempts) = 1

\* Some record of the store U has a display name equal to name, letter case
\* ignored.
RecordedIgnoringCase(U, name) ==
    \E k \in DOMAIN U : Lower(U[k].username) = Lower(name)

\* C20: register_user returns false and leaves the store as it was when a
\* record exists under the same name compared case-insensitively; otherwise it
\* returns true and adds exactly one record, holding the name as given and the
\* gestures given, and leaves every other record as it was.
C20_RegisterRefusesDuplicate ==
    [][last'.op = "register_user" =>
          IF RecordedIgnoringCase(users, last'.dev)
          THEN /\ last'.ret.value = FALSE
               /\ users' = users
          ELSE /\ last'.ret.value = TRUE
               /\ Cardinality(DOMAIN users') = Cardinality(DOMAIN users) + 1
               /\ \A k \in DOMAIN users : k \in DOMAIN users' /\ users'[k] = users[k]
               /\ \E k \in DOMAIN users' \ DOMAIN users :
                     /\ users'[k].username = last'.dev
                     /\ users'[k].gesture_list = last'.ghost.captured]_vars

\* "al" was registered while the store held the gestures of "Al": the call
\* returned false and the record still names "Al".
C20_Witness ==
    /\ last.op = "register_user"
    /\ last.dev = <<"a", "l">>
    /\ last.ret.value = FALSE
    /\ users[<<"a", "l">>].username = <<"A", "l">>
    /\ users[<<"a", "l">>].num_gestures = 3

\* C21: every step keeps each record of the store, with its display name,
\* gesture list, num_gestures and created_at as they were (only last_login may
\* differ); update_last_login for a name without a record leaves the store
\* as it was.
C21_TemplateFieldsImmutable ==
    [][/\ \A k \in DOMAIN users :
             /\ k \in DOMAIN users'
             /\ users'[k].username = users[k].username
             /\ users'[k].gesture_list = users[k].gesture_list
             /\ users'[k].num_gestures = users[k].num_gestures
             /\ users'[k].created_at = users[k].created_at
       /\ IF last'.op = "update_last_login" /\ ~RecordedIgnoringCase(users, last'.dev)
          THEN users' = users
          ELSE TRUE]_vars

\* update_last_login("al") has stamped the record registered as "Al" at a
\* later time than its creation; the gestures are still the three registered.
C21_Witness ==
    /\ last.op = "update_last_login"
    /\ last.dev = <<"a", "l">>
    /\ <<"a", "l">> \in DOMAIN users
    /\ users[<<"a", "l">>].username = <<"A", "l">>
    /\ users[<<"a", "l">>].num_gestures = num_samples
    /\ users[<<"a", "l">>].created_at = 1
    /\ users[<<"a", "l">>].last_login = 2

\* The records whose display name equals name, letter case ignored.
RecordsNamed(U, name) == { k \in DOMAIN U : Lower(U[k].username) = Lower(name) }

\* C22: a lookup by any letter-case variant of a registered name finds the
\* record: user_exists is true, get_gesture_list returns the stored gestures
\* in their order, and get_all_users lists the name with the letter case it
\* was registered with; for a name without a record user_exists is false and
\* get_gesture_list returns None.  (A record holding no gestures, which
\* register_user is never given by the manager, reads as None: see C7.)
C22_LookupIgnoresCase ==
    last.op = "lookup" =>
        IF RecordsNamed(users, last.dev) # {}
        THEN \A k \in RecordsNamed(users, last.dev) :
                /\ last.ret.value = TRUE
                /\ users[k].gesture_list # << >> =>
                       last.ghost.captured = users[k].gesture_list
                /\ users[k].username \in last.ghost.all_users
        ELSE /\ last.ret.value = FALSE
             /\ last.ghost.captured = NoneList

\* The gestures registered as "Al" were looked up as "al": found, returned in
\* order, and listed as "Al" only.
C22_Witness ==
    /\ last.op = "lookup"
    /\ last.dev = <<"a", "l">>
    /\ last.ret.value = TRUE
    /\ Len(last.ghost.captured) = num_samples
    /\ last.ghost.captured = users[<<"a", "l">>].gesture_list
    /\ last.ghost.all_users = { <<"A", "l">> }

\* A line that no handler accepts: it starts with none of the three prefixes,
\* or is READY_FOR_GESTURE without ":<name>", or is MSG: with fewer than three
\* fields.
Colons(message) == Cardinality({i \in 1..Len(message) : message[i] = ":"})

MalformedLine(message) ==
    /\ ~StartsWith(message, USERNAME_PREFIX)
    /\ IF StartsWith(message, READY_PREFIX) THEN Colons(message) = 0
       ELSE IF StartsWith(message, MSG_PREFIX) THEN Colons(message) < 2
       ELSE TRUE

WellFormedLine(message) == ~MalformedLine(message)

\* C23: one write leaves sessions, store, pending recordings and replies
\* exactly as the same write with its malformed lines taken out would: a
\* malformed line changes nothing, schedules nothing, and the well-formed
\* lines after it are still processed.
C23_MalformedLineIgnored ==
    [][last'.op = "WriteValue" =>
          LET good == SelectSeq(last'.ghost.captured, WellFormedLine)
              st == ProcessMessages(RxState(sessions, users, notifying, timers, << >>), good)
          IN /\ sessions' = st.sessions
             /\ timers' = st.timers
             /\ tx' = st.tx
             /\ users' = users]_vars

\* One write held the unknown line PING and then USERNAME:al: the session of
\* "al" was created and NEW_USER was sent.
C23_Witness ==
    /\ last.op = "WriteValue"
    /\ Len(last.ghost.captured) = 2
    /\ MalformedLine(last.ghost.captured[1])
    /\ ~MalformedLine(last.ghost.captured[2])
    /\ <<"a", "l">> \in DOMAIN sessions
    /\ sessions[<<"a", "l">>].state = "waiting_username"
    /\ sessions[<<"a", "l">>].username = <<"a", "l">>
    /\ tx = <<Plain("NEW_USER", "Welcome")>>

\* The lifecycle state of a device, "none" without a session.
StateOf(S, device_id) == IF device_id \in DOMAIN S THEN S[device_id].state ELSE "none"

\* C24: a session enters RECORDING only from COUNTDOWN, VERIFYING only from
\* RECORDING, and AUTHENTICATED or UNAUTHENTICATED only from VERIFYING (which
\* process_gesture_attempt sets first, so a step of that call from RECORDING
\* to a final state has passed through VERIFYING).
C24_LifecycleOrder ==
    [][\A d \in DeviceIds :
          LET from == StateOf(sessions, d)
              to == StateOf(sessions', d)
          IN /\ (to = "recording" /\ from # "recording") => from = "countdown"
             /\ (to = "verifying" /\ from # "verifying") => from = "recording"
             /\ (to \in {"authenticated", "unauthenticated"} /\ from # to) =>
                    \/ from = "verifying"
                    \/ last'.op = "process_gesture_attempt" /\ from = "recording"]_vars

\* The verification session of a stored user.
Verifying(d) ==
    /\ d \in DOMAIN sessions
    /\ sessions[d].username # NoneName
    /\ ~sessions[d].is_new_user

Decided(d) == sessions[d].state \in {"authenticated", "unauthenticated"}

\* C25: when the client of a stored user keeps sending READY_FOR_GESTURE and
\* every recording runs, the session reaches AUTHENTICATED or UNAUTHENTICATED
\* with its third trial, and holds neither state before three trials are done.
C25_DecidedAfterThreeTrials ==
    /\ \A d \in DOMAIN TemplateStore :
          (Verifying(d) /\ sessions[d].current_attempt = 0)
             ~> (Verifying(d) /\ Decided(d) /\ sessions[d].current_attempt = max_attempts
                 /\ Len(sessions[d].attempts) = max_attempts)
    /\ [](\A d \in Clients :
            (Verifying(d) /\ Decided(d)) => sessions[d].current_attempt >= max_attempts)

\* The third trial of "al" has just decided the session.
C25_Witness ==
    /\ last.op = "_do_gesture_recording"
    /\ Verifying(<<"a", "l">>)
    /\ Decided(<<"a", "l">>)
    /\ sessions[<<"a", "l">>].current_attempt = max_attempts
    /\ Len(sessions[<<"a", "l">>].attempts) = max_attempts

\* Central c is connected: it is subscribed to a characteristic that notifies.
RelayConnected(c) ==
    \E t \in TxCharacteristics : c \in relay.subscribed[t] /\ relay.notifying[t]

\* C26: in the relay server a written message has been sent exactly once to
\* every connected central other than its writer and not to the writer, and
\* connected_clients holds a characteristic exactly while it notifies, at
\* most once.
C26_RelayToOthersOnce ==
    /\ relay.written.by # 0 =>
          \A c \in Centrals :
             relay.received[c] = IF c # relay.written.by /\ RelayConnected(c)
                                 THEN <<relay.written.message>> ELSE << >>
    /\ \A t \in TxCharacteristics :
          /\ relay.notifying[t] <=> t \in Elems(relay.connected_clients)
          /\ Cardinality({i \in 1..Len(relay.connected_clients) :
                              relay.connected_clients[i] = t}) <= 1

\* C27: every gesture held by the store is a captured array as the capture
\* returned it, none is the output of normalize_series.
C27_StoredTracesAreRaw ==
    \A k \in DOMAIN users :
       \A i \in 1..Len(users[k].gesture_list) : ~users[k].gesture_list[i].normalized

\* C28: a capture of any number of raw samples, one or more, returns exactly
\* duration * target_hz = 160 rows.
C28_CaptureHasTargetRows ==
    f_out.fn = "collect_gesture" => Len(f_out.value) = target_points

\* C29: normalize_series of a series whose X axis is constant returns a
\* series of the same length whose X axis is all zeros and whose Y axis is the
\* Y axis standardized on its own.
C29_ConstantAxisBecomesZeros ==
    f_out.fn = "normalize_series" =>
        /\ Len(f_out.value) = Len(f_in.series)
        /\ \A i \in 1..Len(f_out.value) : f_out.value[i][1] = Float(0, 0)
        /\ Column(f_out.value, 2) = normalize_column(Column(f_in.series, 2))

\* C30: twed_distance(s, s, 1.0) is 0: every diagonal cell of the cost table
\* is 0, and no cell of any cost table is negative.
C30_TwedOfItselfIsZero ==
    f_out.fn = "twed_distance" =>
        /\ \A c \in DOMAIN f_out.result.cost : f_out.result.cost[c] >= 0
        /\ f_in.series1 = f_in.series2 =>
              /\ f_out.result.value[1] = 0
              /\ \A i \in 0..Len(Flatten(f_in.series1)) : f_out.result.cost[<<i, i>>] = 0

\* twed_distance was called on the same two-row series with unequal samples.
C30_Witness ==
    /\ f_out.fn = "twed_distance"
    /\ f_in.series1 = f_in.series2
    /\ f_in.series1 = << <<0, 1>>, <<1, 0>> >>
    /\ f_out.result.value = <<0, 4>>

C32_ScorerFailureRejects ==
    /\ (f_out.fn = "hmm_distance"
        /\ HmmFailure(f_in.reference_gestures, f_in.test_gesture, f_in.library) # "none") =>
           /\ f_out.result.value = NegInf
           /\ ~f_out.result.raised
           /\ ~f_out.passed
    /\ (f_out.fn = "dtw_distance" /\ DtwRaises(f_in.series1, f_in.series2)) =>
           /\ f_out.distance = FloatInf
           /\ ~f_out.passed

\* fit() failed on two references and the score was rejected.
C32_Witness ==
    /\ f_out.fn = "hmm_distance"
    /\ Len(f_in.reference_gestures) = 2
    /\ f_in.library.fit_raises
    /\ f_in.library.log_likelihood = 0
    /\ f_out.result.value = NegInf
    /\ ~f_out.passed

Tags(sent) == { sent[i].tag : i \in 1..Len(sent) }

\* C33: verification trials 1 and 2 never finalize the session: the result
\* has auth_complete false and auth_success false, the session is neither
\* AUTHENTICATED nor UNAUTHENTICATED, and neither AUTH_SUCCESS nor AUTH_FAILED
\* is sent, whatever the outcome of the trials.
C33_EarlyTrialsDoNotFinalize ==
    (/\ last.op = "_do_gesture_recording"
     /\ last.ghost.kind = "verification"
     /\ last.ret.attempt_number \in {1, 2}) =>
        /\ ~last.ret.auth_complete
        /\ ~last.ret.auth_success
        /\ sessions[last.dev].state \notin {"authenticated", "unauthenticated"}
        /\ Tags(tx) \cap {"AUTH_SUCCESS", "AUTH_FAILED"} = {}

\* The second trial was accepted like the first, and only its result was sent.
C33_Witness ==
    /\ last.op = "_do_gesture_recording"
    /\ last.ghost.kind = "verification"
    /\ last.ret.attempt_number = 2
    /\ last.ret.success
    /\ last.ret.total_passed = 2
    /\ Tags(tx) = {"RECORDING_START", "ATTEMPT_RESULT"}
    /\ sessions[last.dev].state = "verifying"

\* C34: a recording run on a session of an existing user sends
\* RECORDING_START first; when a trial ran, ATTEMPT_RESULT:<n> follows with
\* the n that RECORDING_START announced and <passed> <= <total> = n, and then
\* AUTH_SUCCESS or AUTH_FAILED on a finalizing trial and nothing otherwise;
\* AUTH_SUCCESS carries the session's username and is sent only when the
\* session is AUTHENTICATED.
C34_RecordingMessageOrder ==
    (/\ last.op = "_do_gesture_recording"
     /\ tx # << >>
     /\ ~sessions[last.dev].is_new_user) =>
        /\ tx[1].tag = "RECORDING_START"
        /\ \A i \in 2..Len(tx) : tx[i].tag # "RECORDING_START"
        /\ \A i \in 1..Len(tx) : tx[i].tag = "ATTEMPT_RESULT" => i = 2
        /\ \A i \in 1..Len(tx) :
              tx[i].tag \in {"AUTH_SUCCESS", "AUTH_FAILED"} =>
                 /\ i = 3
                 /\ tx[2].tag = "ATTEMPT_RESULT"
                 /\ tx[2].n >= max_attempts
        /\ \A i \in 1..Len(tx) :
              tx[i].tag = "AUTH_SUCCESS" =>
                 /\ sessions[last.dev].state = "authenticated"
                 /\ tx[i].name = sessions[last.dev].username
        /\ last.ghost.kind = "verification" =>
              /\ Len(tx) = IF last.ret.auth_complete THEN 3 ELSE 2
              /\ tx[2].tag = "ATTEMPT_RESULT"
              /\ tx[2].n = tx[1].n
              /\ tx[2].total = tx[2].n
              /\ tx[2].passed <= tx[2].total

\* The third trial finalized an accepted session: three lines in order.
C34_Witness ==
    /\ last.op = "_do_gesture_recording"
    /\ last.ghost.kind = "verification"
    /\ Len(tx) = 3
    /\ tx[1].tag = "RECORDING_START" /\ tx[1].n = 3
    /\ tx[2].tag = "ATTEMPT_RESULT" /\ tx[2].n = 3 /\ tx[2].passed = 2 /\ tx[2].total = 3
    /\ tx[3].tag = "AUTH_SUCCESS"
    /\ sessions[last.dev].state = "authenticated"

\* The identity has no session, or its session holds no username.
NoAcceptedUsername(S, d) ==
    IF d \notin DOMAIN S THEN TRUE ELSE S[d].username = NoneName

\* C35: a READY_FOR_GESTURE naming an identity without a session, or whose
\* session holds no username, is answered with ERROR:Please send username
\* first (sent whenever a client is subscribed), schedules no recording and
\* leaves every session, with its current_attempt, attempts and state, as it
\* was.
C35_ReadyWithoutUsernameRefused ==
    [][(/\ last'.op = "_handle_gesture_ready"
        /\ NoAcceptedUsername(sessions, last'.dev)) =>
           /\ timers' = timers
           /\ sessions' = sessions
           /\ \A i \in 1..Len(tx') : tx'[i] = Plain("ERROR", "Please send username first")
           /\ Len(tx') = IF notifying THEN 1 ELSE 0
           /\ ~last'.ret.value]_vars

\* READY_FOR_GESTURE was refused for the session that a too short username
\* left without a name.
C35_Witness ==
    /\ last.op = "_handle_gesture_ready"
    /\ last.dev = <<"a">>
    /\ last.dev \in DOMAIN sessions
    /\ sessions[last.dev].username = NoneName
    /\ tx = <<Plain("ERROR", "Please send username first")>>
    /\ timers = << >>

\* The non-empty trimmed newline-terminated lines of a text.
LinesOf(text) ==
    SelectSeq([i \in 1..(Len(Split(text, "\n", -1)) - 1) |->
                  Strip(Split(text, "\n", -1)[i])], NonEmptyLine)

\* What follows the last newline of a text.
PartialOf(text) == Split(text, "\n", -1)[Len(Split(text, "\n", -1))]

\* C36: however the client's byte stream is cut into writes, the messages
\* dispatched so far are the non-empty trimmed newline-terminated lines of
\* the bytes written so far, and the unfinished line is in the buffer.
C36_DispatchIgnoresFragmentation ==
    (f_in.fn = "stream" /\ Utf8Valid(Written(1))) =>
        /\ f_out.dispatched = LinesOf(Utf8Text(Written(1)))
        /\ message_buffer = PartialOf(Utf8Text(Written(1)))

\* C37: a username submission for identity d, valid or not, leaves d not
\* authenticated and without a reported username, and d becomes authenticated
\* again only by a recording run on d's session that finalizes with success.
C37_UsernameRevokesAuthentication ==
    [][\A d \in Clients :
          /\ (last'.op = "_handle_username" /\ last'.dev = d) =>
                /\ ~is_authenticated(sessions', d)
                /\ get_username(sessions', d) = NoneName
          /\ (~is_authenticated(sessions, d) /\ is_authenticated(sessions', d)) =>
                /\ last'.op = "_do_gesture_recording"
                /\ last'.dev = d
                /\ last'.ret.auth_complete
                /\ last'.ret.auth_success]_vars

\* A username submission has just replaced an AUTHENTICATED session.
C37_Witness ==
    /\ last.op = "_handle_username"
    /\ last.was_authenticated
    /\ ~is_authenticated(sessions, last.dev)
    /\ get_username(sessions, last.dev) = NoneName

\* C38: a deferred recording consumes one timeout and runs at most one
\* trial, and none when the session its READY_FOR_GESTURE was accepted for is
\* gone: when the identity has no session any more, or when the handler that
\* ran just before was a USERNAME line of the same identity (every pending
\* timeout is then older than the session), the run leaves the sessions and
\* the store as they were.
C38_DeferredRecordingBoundToSession ==
    [][last'.op = "_do_gesture_recording" =>
          /\ timers' = Tail(timers)
          /\ last'.dev \notin DOMAIN sessions =>
                (sessions' = sessions /\ users' = users /\ tx' = << >>)
          /\ last'.dev \in DOMAIN sessions =>
                sessions'[last'.dev].current_attempt
                    <= sessions[last'.dev].current_attempt + 1
          /\ (last.op = "_handle_username" /\ last.dev = last'.dev) =>
                (sessions' = sessions /\ users' = users)]_vars

\* C39: however the writes of the clients interleave, every dispatched
\* message is one of the lines of the stream of the client whose write
\* dispatched it, and so of a single client.
C39_MessagesOfOneClient ==
    f_in.fn = "stream" =>
        \A i \in 1..Len(f_out.dispatched) :
            \E j \in 1..Len(LinesOf(Utf8Text(f_in.bytes[f_out.by[i]]))) :
                f_out.dispatched[i] = LinesOf(Utf8Text(f_in.bytes[f_out.by[i]]))[j]

====
